---- MODULE Spec2Model ----
(***************************************************************************)
(* A model of pdfspy: the TypeScript-interface parser, the schema-to-data  *)
(* mapper, the field extraction cascade, the registry-number validator and *)
(* the hazard classifier.                                                  *)
(*                                                                         *)
(* Text is modelled as sequences of tokens: a token is an identifier, a    *)
(* number, a punctuation mark or a run of white space.  A Python dict tree *)
(* is a function from paths (sequences of keys) to values; a value is a    *)
(* record [kind, toks, n].                                                 *)
(***************************************************************************)
EXTENDS Integers, Sequences, FiniteSets, TLC

VARIABLES
  \* parse_ts_interface (src/app/parse_ts_interface.py)
  root,          \* the dict tree being built
  current,       \* path of the dict `current` refers to
  schema_stack,  \* the dicts pushed on schema_stack, as paths
  key_stack,     \* the keys pushed on key_stack
  parse_pc,      \* "loop" | "returned" | "raised"
  parse_exc,     \* the exception raised, "" when none
  nlines,        \* number of lines consumed
  closedBy,      \* history: the closing line of each closed container still in the tree
  braces,        \* history: the opening and closing lines consumed, in order
  \* HazardClassifier (src/app/hazard_classifier.py)
  h_codes,       \* the list of codes passed to the methods
  signal_word,   \* what determine_signal_word returned, "" before the call
  severity_score, \* what _calculate_severity_score returned, 0 before the call
  classification, \* the dict of classify_hazard_statements
  haz_pc,        \* "idle" | "call" | "done" | "scored" | "classified" | "raised"
  \* ChemicalNER.validate_cas_number (src/app/chemical_ner.py)
  cas,           \* the string passed, a sequence of characters
  cas_result,    \* "True" | "False", or the exception raised; "" before the call
  cas_pc,        \* "idle" | "call" | "done"
  \* ChemicalNER.extract_entities and extract_chemical_info
  ner_text,      \* the text passed, a sequence of characters
  entities,      \* entities['cas_number'] as extract_entities returned it
  cas_numbers,   \* the 'cas_numbers' of the dict extract_chemical_info returned
  ner_pc,        \* "idle" | "call" | "entities" | "done" | "raised"
  \* map_schema_to_data (src/app/mappers.py)
  map_schema,    \* the schema passed, a tree
  map_text,      \* the text passed, a sequence of tokens
  map_result,    \* the tree returned; the empty function before the call
  map_pc,        \* "idle" | "call" | "done" | "raised"
  map_exc,       \* the exception raised, "" when none
  \* extract_field_value (src/app/dynamic_extractor.py)
  ex_field_name, \* the field name passed, one word
  ex_field_type, \* the field type passed
  ex_text,       \* the text passed, a sequence of tokens
  hash_seed,     \* the string hash seed of the running process
  nlp,           \* whether the spaCy model was loaded at import
  _doc_cache,    \* the dict _doc_cache: its entries in the order of insertion
  ex_doc,        \* history: the doc the NLP step of this call worked on
  ex_variants,   \* field_variants, <<>> before it is computed
  ex_value,      \* the value the strategy just run returned
  ex_result,     \* what extract_field_value returned
  ex_ran,        \* history: the strategies run by this call and their values, in order
  ex_pc,         \* "idle" | "variants" | "table" | "patterns" | "nlp" | "fuzzy" | "convert" | "done" | "raised"
  ex_run,        \* history: the number of the run (process) making the call
  ex_first,      \* history: what the first run returned
  \* _extract_structured_array (src/app/dynamic_extractor.py)
  arr_schema,    \* the item schema passed, the sequence of its fields
  arr_text,      \* the text passed, a sequence of tokens
  arr_seed,      \* the string hash seed of the running process
  arr_header,    \* header_line_idx counted from 1, 0 for None
  arr_sections,  \* the sections still to be looked at
  arr_results,   \* results, and at the end the list returned
  arr_path,      \* history: the function the rows returned come from
  arr_scored,    \* history: per section looked at, the confidence of each populated value
  arr_pc,        \* "idle" | "call" | "vertical" | "horizontal" | "sections" | "rows" | "done"
  \* PDFBatchProcessor.process_batch (src/main.py)
  pdf_paths,     \* the documents passed, a sequence of distinct paths
  max_workers,   \* self.max_workers, the number of worker processes
  fate,          \* what processing each document does in its worker
  futures,       \* the future of each document: its state and its outcome
  results,       \* the dict results, a function of the paths collected
  batch_statistics, \* batch_summary['batch_statistics'], <<>> before the return
  batch_pc,      \* "idle" | "call" | "collect" | "returned"
  processor,     \* the attributes of the processor process_batch is called on
  worker_processor, \* for each job started, the attributes of the processor its worker made
  \* PDFBatchProcessor._extract_with_fallback (src/main.py)
  DONUT_AVAILABLE, \* whether donut_processor could be imported
  enable_donut,  \* the enable_donut passed to the constructor
  donut_timeout, \* self.donut_timeout
  donut,         \* what the Donut model does with the page: its outcome and its time
  donut_result,  \* what process_pdf_page returned, <<>> when it was not called
  donut_text,    \* what try_donut_extraction returned, "" before the call
  fb_result,     \* the dict _extract_with_fallback returned, <<>> before
  don_pc,        \* "idle" | "call" | "donut" | "page" | "text" | "done"
  \* ExtractionCache (src/app/cache_manager.py)
  disk_files,    \* the *.pkl files of cache_dir: key -> value stored, mtime, size
  disk_now,      \* time.time(), in days
  disk_key,      \* the cache key of the call running or just made
  disk_value,    \* the result passed to set
  disk_got,      \* what the last get returned
  disk_before,   \* history: the files when _cleanup_cache was entered
  disk_written,  \* history: for each key the last set, and whether its file was evicted or cleared since
  disk_calls,    \* history: the number of calls made
  disk_pc,       \* "idle" | "ready" | "dump" | "stored" | "got" | "cleared"
  \* extract_ingredient_data (src/app/extractors.py)
  ing_text,      \* the text passed, a sequence of tokens
  ing_result,    \* the list returned, <<>> before the call
  ing_path,      \* history: the path the list comes from, "structured" | "pattern"
  ing_pc,        \* "idle" | "call" | "done"
  \* PDFBatchProcessor.process_single_pdf (src/main.py)
  psp_input,     \* whether the PDF is processable and the interface file loads
  psp_content,   \* the dict extract_pdf_content returned, <<>> before
  psp_raw,       \* the dict _extract_with_fallback returned, <<>> before
  psp_called,    \* history: the extraction functions called
  psp_result,    \* the dict returned
  psp_pc         \* "idle" | "call" | "parse" | "extracted" | "returned"

parseVars == <<root, current, schema_stack, key_stack, parse_pc, parse_exc, nlines, closedBy,
               braces>>
hazVars == <<h_codes, signal_word, severity_score, classification, haz_pc>>
casVars == <<cas, cas_result, cas_pc, ner_text, entities, cas_numbers, ner_pc>>
mapVars == <<map_schema, map_text, map_result, map_pc, map_exc>>
exVars ==
  <<ex_field_name, ex_field_type, ex_text, hash_seed, nlp, _doc_cache, ex_doc,
    ex_variants, ex_value, ex_result, ex_ran, ex_pc, ex_run, ex_first>>

arrVars ==
  <<arr_schema, arr_text, arr_seed, arr_header, arr_sections, arr_results, arr_path,
    arr_scored, arr_pc>>

batVars ==
  <<pdf_paths, max_workers, fate, futures, results, batch_statistics, batch_pc,
    processor, worker_processor>>

donVars ==
  <<DONUT_AVAILABLE, enable_donut, donut_timeout, donut, donut_result, donut_text,
    fb_result, don_pc>>

diskVars ==
  <<disk_files, disk_now, disk_key, disk_value, disk_got, disk_before, disk_written,
    disk_calls, disk_pc>>

ingVars == <<ing_text, ing_result, ing_path, ing_pc>>

pspVars == <<psp_input, psp_content, psp_raw, psp_called, psp_result, psp_pc>>

mainVars == <<batVars, donVars, diskVars, pspVars>>

vars == <<parseVars, hazVars, casVars, mapVars, exVars, arrVars, ingVars, mainVars>>

\* What each component leaves alone: the state of the others.
notParse == <<hazVars, casVars, mapVars, exVars, arrVars, ingVars, mainVars>>
notHaz == <<parseVars, casVars, mapVars, exVars, arrVars, ingVars, mainVars>>
notCas == <<parseVars, hazVars, mapVars, exVars, arrVars, ingVars, mainVars>>
notMap == <<parseVars, hazVars, casVars, exVars, arrVars, ingVars, mainVars>>
notEx == <<parseVars, hazVars, casVars, mapVars, arrVars, ingVars, mainVars>>
notArr == <<parseVars, hazVars, casVars, mapVars, exVars, ingVars, mainVars>>
notBat == <<parseVars, hazVars, casVars, mapVars, exVars, arrVars, ingVars, donVars, diskVars,
           pspVars>>
notDon == <<parseVars, hazVars, casVars, mapVars, exVars, arrVars, ingVars, batVars, diskVars,
           pspVars>>
notDisk == <<parseVars, hazVars, casVars, mapVars, exVars, arrVars, ingVars, batVars, donVars,
            pspVars>>
notPsp ==
  <<parseVars, hazVars, casVars, mapVars, exVars, arrVars, ingVars, batVars, donVars, diskVars>>
notIng == <<parseVars, hazVars, casVars, mapVars, exVars, arrVars, mainVars>>

----------------------------------------------------------------------------
(* Bounds *)

MaxLines == 4

----------------------------------------------------------------------------
(* Token sequences *)

WS == " "

IsPrefix(p, q) == Len(p) <= Len(q) /\ SubSeq(q, 1, Len(p)) = p

RECURSIVE LStrip(_)
LStrip(s) == IF s # <<>> /\ Head(s) = WS THEN LStrip(Tail(s)) ELSE s

RECURSIVE RStripTok(_, _)
RStripTok(s, t) ==
  IF s # <<>> /\ s[Len(s)] = t THEN RStripTok(SubSeq(s, 1, Len(s) - 1), t) ELSE s

\* str.strip()
Strip(s) == RStripTok(LStrip(s), WS)

\* index of the first occurrence of token t in s, 0 when absent
FirstIndex(s, t) ==
  IF \E i \in 1..Len(s) : s[i] = t
  THEN CHOOSE i \in 1..Len(s) : s[i] = t /\ \A j \in 1..(i - 1) : s[j] # t
  ELSE 0

Punct == {":", "{", "}", "[]", ";", WS}

\* \w+ : one identifier token
IsWord(t) == t \notin Punct

----------------------------------------------------------------------------
(* Python values and dict trees *)

Dict == [kind |-> "dict", toks |-> <<>>, n |-> 0]
Str(toks) == [kind |-> "str", toks |-> toks, n |-> 0]
PyInt(n) == [kind |-> "int", toks |-> <<>>, n |-> n]
\* the list _generate_search_terms(key) returns
Terms(key) == [kind |-> "list", toks |-> key, n |-> 0]

K_field_name == <<"_field_name">>
K_type == <<"_type">>
K_original_type == <<"_original_type">>
K_search_terms == <<"_search_terms">>
K_priority == <<"_priority">>

\* d[key] = obj, where d is the dict at path cur and obj maps relative paths to values
DictAssign(tree, cur, key, obj) ==
  LET p == Append(cur, key)
      kept == {q \in DOMAIN tree : ~IsPrefix(p, q)}
      new == {p \o r : r \in DOMAIN obj}
  IN [q \in kept \cup new |->
        IF q \in new THEN obj[SubSeq(q, Len(p) + 1, Len(q))] ELSE tree[q]]

Leaf(v) == [r \in {<<>>} |-> v]

----------------------------------------------------------------------------
(* parse_ts_interface *)

\* The lines the interface text is drawn from
InputLines ==
  { <<>>,
    <<"interface", WS, "X", WS, "{">>,
    <<"junk">>,
    <<"a", ":", WS, "{">>,
    <<"b", ":", "{", WS, ";">>,
    <<"}">>,
    <<"}", "[]", ";">>,
    <<"}", WS, "[]">>,
    <<WS, "a", ":", WS, "string", ";">>,
    <<"b", ":", WS, "number", "[]">>,
    <<"_type", ":", WS, "Foo">>,
    <<"n", ":", WS, "number", ";">>,
    <<"c", ":", "Boolean">>,
    <<"productName", ":", WS, "string", ";">> }

\* line = line.strip().rstrip(";")
CleanLine(raw) == RStripTok(Strip(raw), ";")

\* not line or line.startswith("interface ")
IsSkipped(line) ==
  \/ line = <<>>
  \/ Len(line) >= 2 /\ line[1] = "interface" /\ line[2] = WS

\* re.match(r"\w+:\s*{\s*$", line)
MatchesOpen(line) ==
  /\ Len(line) >= 3
  /\ IsWord(line[1])
  /\ line[2] = ":"
  /\ \E i \in 3..Len(line) :
       /\ line[i] = "{"
       /\ \A j \in 3..Len(line) : j # i => line[j] = WS

IsCloseArray(line) == line = <<"}", "[]">>

IsClose(line) == line = <<"}">>

HasColon(line) == \E i \in 1..Len(line) : line[i] = ":"

\* line.split(":")[0].strip() and line.split(":", 1)[1].strip()
KeyOf(line) == Strip(SubSeq(line, 1, FirstIndex(line, ":") - 1))
ValTypeOf(line) == Strip(SubSeq(line, FirstIndex(line, ":") + 1, Len(line)))

EndsWithBrackets(type_str) == type_str # <<>> /\ type_str[Len(type_str)] = "[]"

\* The type spellings the function names
RecognizedTypes ==
  {<<"string">>, <<"String">>, <<"number">>, <<"Number">>, <<"boolean">>, <<"Boolean">>}

_normalize_type_without_arrays(type_str) ==
  LET t == Strip(type_str)
  IN IF t \in {<<"string">>, <<"String">>} THEN <<"string">>
     ELSE IF t \in {<<"number">>, <<"Number">>} THEN <<"number">>
     ELSE IF t \in {<<"boolean">>, <<"Boolean">>} THEN <<"boolean">>
     ELSE <<"string">>

_normalize_type(type_str) ==
  LET t == Strip(type_str)
  IN IF EndsWithBrackets(t) THEN <<"array">>
     ELSE IF t \in {<<"string">>, <<"String">>} THEN <<"string">>
     ELSE IF t \in {<<"number">>, <<"Number">>} THEN <<"number">>
     ELSE IF t \in {<<"boolean">>, <<"Boolean">>} THEN <<"boolean">>
     ELSE <<"string">>

\* The identifiers of the model that contain a term of the priority lists
HighPriorityKeys == {<<"productName">>, <<"name">>, <<"chemicalName">>}
MediumPriorityKeys == {<<"casNumber">>, <<"hazard">>}

_get_field_priority(key) ==
  IF key \in HighPriorityKeys THEN 3
  ELSE IF key \in MediumPriorityKeys THEN 2
  ELSE 1

NewObj(key) ==
  (<<>> :> Dict) @@ (<<K_field_name>> :> Str(key))
  @@ (<<K_type>> :> Str(<<"object">>)) @@ (<<K_search_terms>> :> Terms(key))

FieldInfo(key, val_type) ==
  (<<>> :> Dict) @@ (<<K_field_name>> :> Str(key))
  @@ (<<K_type>> :> Str(_normalize_type(val_type)))
  @@ (<<K_original_type>> :> Str(val_type))
  @@ (<<K_search_terms>> :> Terms(key))
  @@ (<<K_priority>> :> PyInt(_get_field_priority(key)))

\* history bookkeeping: forget the closed containers at or below path p
Forget(cb, p) == [q \in {x \in DOMAIN cb : ~IsPrefix(p, x)} |-> cb[q]]

ParseIdle ==
  /\ root = Leaf(Dict) /\ current = <<>> /\ schema_stack = <<>> /\ key_stack = <<>>
  /\ parse_pc = "idle" /\ parse_exc = "" /\ nlines = 0 /\ closedBy = <<>>
  /\ braces = <<>>

ParseInit ==
  /\ root = Leaf(Dict)
  /\ current = <<>>
  /\ schema_stack = <<>>
  /\ key_stack = <<>>
  /\ parse_pc = "loop"
  /\ parse_exc = ""
  /\ nlines = 0
  /\ closedBy = <<>>
  /\ braces = <<>>

\* the loop is about to read one more line
Reading(raw) == parse_pc = "loop" /\ nlines < MaxLines /\ raw \in InputLines

\* `continue`, or a line no branch handles
ParseSkip(raw) ==
  /\ Reading(raw)
  /\ LET line == CleanLine(raw)
     IN \/ IsSkipped(line)
        \/ /\ ~MatchesOpen(line) /\ ~IsCloseArray(line) /\ ~IsClose(line)
           /\ ~HasColon(line)
  /\ nlines' = nlines + 1
  /\ UNCHANGED <<root, current, schema_stack, key_stack, parse_pc, parse_exc, closedBy,
                 braces>>
  /\ UNCHANGED notParse

ParseOpen(raw) ==
  /\ Reading(raw)
  /\ LET line == CleanLine(raw)
         key == KeyOf(line)
     IN /\ ~IsSkipped(line)
        /\ MatchesOpen(line)
        /\ root' = DictAssign(root, current, key, NewObj(key))
        /\ schema_stack' = Append(schema_stack, current)
        /\ key_stack' = Append(key_stack, key)
        /\ current' = Append(current, key)
        /\ closedBy' = Forget(closedBy, Append(current, key))
  /\ braces' = Append(braces, "{")
  /\ nlines' = nlines + 1
  /\ UNCHANGED <<parse_pc, parse_exc>>
  /\ UNCHANGED notParse

ParseCloseArray(raw) ==
  /\ Reading(raw)
  /\ LET line == CleanLine(raw)
     IN /\ ~IsSkipped(line) /\ ~MatchesOpen(line)
        /\ IsCloseArray(line)
  /\ nlines' = nlines + 1
  /\ braces' = Append(braces, "}[]")
  /\ key_stack' = IF key_stack # <<>> THEN SubSeq(key_stack, 1, Len(key_stack) - 1)
                  ELSE key_stack
  /\ IF schema_stack = <<>>
     THEN \* schema_stack.pop() on an empty list
          /\ parse_pc' = "raised"
          /\ parse_exc' = "IndexError"
          /\ UNCHANGED <<root, current, schema_stack, closedBy>>
     ELSE /\ schema_stack' = SubSeq(schema_stack, 1, Len(schema_stack) - 1)
          /\ root' = DictAssign(root, current, K_type, Leaf(Str(<<"array_of_objects">>)))
          /\ current' = schema_stack[Len(schema_stack)]
          /\ closedBy' = (current :> "}[]") @@ Forget(closedBy, Append(current, K_type))
          /\ UNCHANGED <<parse_pc, parse_exc>>
  /\ UNCHANGED notParse

ParseClose_keeping_the_key(raw) ==
  /\ Reading(raw)
  /\ LET line == CleanLine(raw)
     IN /\ ~IsSkipped(line) /\ ~MatchesOpen(line) /\ ~IsCloseArray(line)
        /\ IsClose(line)
  /\ nlines' = nlines + 1
  /\ braces' = Append(braces, "}")
  /\ IF schema_stack # <<>>
     THEN /\ current' = schema_stack[Len(schema_stack)]
          /\ schema_stack' = SubSeq(schema_stack, 1, Len(schema_stack) - 1)
          /\ closedBy' = (current :> "}") @@ closedBy
          /\ UNCHANGED key_stack
     ELSE UNCHANGED <<current, schema_stack, key_stack, closedBy>>
  /\ UNCHANGED <<root, parse_pc, parse_exc>>
  /\ UNCHANGED notParse

ParseClose(raw) ==
  /\ Reading(raw)
  /\ LET line == CleanLine(raw)
     IN /\ ~IsSkipped(line) /\ ~MatchesOpen(line) /\ ~IsCloseArray(line)
        /\ IsClose(line)
  /\ nlines' = nlines + 1
  /\ braces' = Append(braces, "}")
  /\ IF schema_stack # <<>>
     THEN /\ current' = schema_stack[Len(schema_stack)]
          /\ schema_stack' = SubSeq(schema_stack, 1, Len(schema_stack) - 1)
          /\ key_stack' = IF key_stack # <<>>
                          THEN SubSeq(key_stack, 1, Len(key_stack) - 1)
                          ELSE key_stack
          /\ closedBy' = (current :> "}") @@ closedBy
     ELSE UNCHANGED <<current, schema_stack, key_stack, closedBy>>
  /\ UNCHANGED <<root, parse_pc, parse_exc>>
  /\ UNCHANGED notParse

ParseField(raw) ==
  /\ Reading(raw)
  /\ LET line == CleanLine(raw)
         key == KeyOf(line)
     IN /\ ~IsSkipped(line) /\ ~MatchesOpen(line) /\ ~IsCloseArray(line)
        /\ ~IsClose(line)
        /\ HasColon(line)
        /\ root' = DictAssign(root, current, key, FieldInfo(key, ValTypeOf(line)))
        /\ closedBy' = Forget(closedBy, Append(current, key))
  /\ nlines' = nlines + 1
  /\ UNCHANGED <<current, schema_stack, key_stack, parse_pc, parse_exc, braces>>
  /\ UNCHANGED notParse

\* the lines are exhausted: return root
ParseReturn ==
  /\ parse_pc = "loop"
  /\ parse_pc' = "returned"
  /\ UNCHANGED <<root, current, schema_stack, key_stack, parse_exc, nlines, closedBy, braces>>
  /\ UNCHANGED notParse

ParseNext ==
  \/ \E raw \in InputLines : ParseSkip(raw)
  \/ \E raw \in InputLines : ParseOpen(raw)
  \/ \E raw \in InputLines : ParseCloseArray(raw)
  \/ \E raw \in InputLines : ParseClose(raw)
  \/ \E raw \in InputLines : ParseField(raw)
  \/ ParseReturn


----------------------------------------------------------------------------
(* Claims about parse_ts_interface *)

TypeOfNode(p) == root[Append(p, K_type)]

\* C4: parse_ts_interface never raises, whatever the lines: a line without a
\* colon and a closing brace with no open scope are skipped.
C4_ParserNeverRaises == parse_pc # "raised"

\* C5: a closed container node has type array_of_objects if and only if the
\* line that closed it is `}[]`; closed by `}` it has type object, and no
\* other line changes that.
C5_ArrayIffClosedByArrayToken ==
  \A p \in DOMAIN closedBy :
    /\ (TypeOfNode(p) = Str(<<"array_of_objects">>)) <=> (closedBy[p] = "}[]")
    /\ (closedBy[p] = "}") => (TypeOfNode(p) = Str(<<"object">>))

\* The leaf fields of the tree: the dicts that carry the declared type
LeafFields == {p \in DOMAIN root : Append(p, K_original_type) \in DOMAIN root}
DeclaredType(p) == root[Append(p, K_original_type)].toks

RECURSIVE UnmatchedOpens(_, _, _)
UnmatchedOpens(seq, n, avail) ==
  IF n = 0 THEN 0
  ELSE IF seq[n] = "{"
       THEN IF avail > 0 THEN UnmatchedOpens(seq, n - 1, avail - 1)
            ELSE 1 + UnmatchedOpens(seq, n - 1, 0)
       ELSE UnmatchedOpens(seq, n - 1, avail + 1)

\* C25: while the lines are processed without raising, the scope stack and
\* the key stack have the same length, the nesting depth of the current
\* scope; when every opening line consumed is matched by a later `}` or `}[]`,
\* both stacks are empty and the current scope is the root.
C25_StacksFollowNesting ==
  parse_pc # "raised" =>
    /\ Len(schema_stack) = Len(key_stack)
    /\ Len(schema_stack) = Len(current)
    /\ UnmatchedOpens(braces, Len(braces), 0) = 0 =>
         schema_stack = <<>> /\ key_stack = <<>> /\ current = <<>>

\* two nested scopes were opened and both were closed, one by each token
C25_Witness ==
  /\ parse_pc = "returned"
  /\ \E i, j \in 1..Len(braces) :
       /\ i < j /\ braces[i] = "{" /\ braces[j] = "{"
       /\ \E k, l \in (j + 1)..Len(braces) : braces[k] = "}" /\ braces[l] = "}[]"
  /\ schema_stack = <<>> /\ key_stack = <<>> /\ current = <<>>

\* The container nodes: the scopes still open and the closed ones in the tree
OpenScopes == {SubSeq(current, 1, i) : i \in 1..Len(current)}
Containers == OpenScopes \cup DOMAIN closedBy

\* C26: declaring a field inside a scope never changes the metadata of the
\* enclosing container: its _field_name and _search_terms are those of its
\* opening line, and its _type is array_of_objects when `}[]` closed it and
\* object otherwise, whatever the names of the fields declared in it.
C26_ContainerMetadataKept ==
  \A p \in Containers :
    LET key == p[Len(p)]
    IN /\ Append(p, K_field_name) \in DOMAIN root
       /\ root[Append(p, K_field_name)] = Str(key)
       /\ Append(p, K_search_terms) \in DOMAIN root
       /\ root[Append(p, K_search_terms)] = Terms(key)
       /\ Append(p, K_type) \in DOMAIN root
       /\ TypeOfNode(p) =
            IF p \in DOMAIN closedBy /\ closedBy[p] = "}[]"
            THEN Str(<<"array_of_objects">>) ELSE Str(<<"object">>)

----------------------------------------------------------------------------
(* HazardClassifier.determine_signal_word (src/app/hazard_classifier.py)    *)

MaxCodes == 4

danger_codes ==
  { "H200", "H201", "H202", "H203", "H204", "H205",
    "H220", "H222", "H224",
    "H240", "H241", "H250", "H260", "H271",
    "H280",
    "H300", "H301", "H310", "H311", "H330", "H331",
    "H314", "H318",
    "H334",
    "H340", "H350", "H360", "H370", "H372",
    "H400", "H410" }

warning_codes ==
  { "H205", "H221", "H223", "H225", "H226", "H227", "H228",
    "H241", "H242", "H251", "H252", "H261", "H270", "H272",
    "H281", "H290",
    "H302", "H303", "H304", "H305", "H312", "H313", "H315", "H316",
    "H317", "H319", "H320", "H332", "H333", "H335", "H336",
    "H341", "H351", "H361", "H362", "H371", "H373",
    "H401", "H402", "H411", "H412", "H413", "H420" }

\* The codes a caller passes: severe only, moderate only, in both lists,
\* H-codes in neither list, a string that is no H-code, and an H-code whose
\* digits are cut short by a letter.
InputCodes == {"H314", "H410", "H302", "H315", "H205", "H999", "X", "H31a"}

InputCodeLists == UNION {[1..n -> InputCodes] : n \in 0..MaxCodes}

\* for code in h_codes: if code in codes: return ...
RECURSIVE AnyCodeIn(_, _)
AnyCodeIn(codes_list, codes) ==
  IF codes_list = <<>> THEN FALSE
  ELSE IF Head(codes_list) \in codes THEN TRUE
  ELSE AnyCodeIn(Tail(codes_list), codes)

determine_signal_word_warning_first(codes_list) ==
  IF AnyCodeIn(codes_list, warning_codes) THEN "WARNING"
  ELSE IF AnyCodeIn(codes_list, danger_codes) THEN "DANGER"
  ELSE IF codes_list = <<>> THEN "None" ELSE "WARNING"

determine_signal_word(codes_list) ==
  IF AnyCodeIn(codes_list, danger_codes) THEN "DANGER"
  ELSE IF AnyCodeIn(codes_list, warning_codes) THEN "WARNING"
  ELSE IF codes_list = <<>> THEN "None" ELSE "WARNING"

\* lines 14-18: the dict classify_hazard_statements begins with
EmptyClassification ==
  [physical_hazards |-> <<>>, health_hazards |-> <<>>, environmental_hazards |-> <<>>]

HazIdle ==
  /\ h_codes = <<>> /\ signal_word = "" /\ haz_pc = "idle"
  /\ severity_score = 0 /\ classification = EmptyClassification

HazInit ==
  /\ h_codes \in InputCodeLists /\ signal_word = "" /\ haz_pc = "call"
  /\ severity_score = 0 /\ classification = EmptyClassification

DetermineSignalWord ==
  /\ haz_pc = "call"
  /\ signal_word' = determine_signal_word(h_codes)
  /\ haz_pc' = "done"
  /\ UNCHANGED <<h_codes, severity_score, classification, notHaz>>

\* C10: determine_signal_word returns "DANGER" exactly when some code of the
\* list is in the severe set, wherever it stands and whatever moderate codes
\* stand with it; otherwise "WARNING" exactly when the list is non-empty
\* (also when no code is in either set); "None" only for the empty list.
C10_SignalWord ==
  haz_pc = "done" =>
    LET severe == \E i \in 1..Len(h_codes) : h_codes[i] \in danger_codes IN
    /\ (signal_word = "DANGER") <=> severe
    /\ ~severe => ((signal_word = "WARNING") <=> (h_codes # <<>>))
    /\ (signal_word = "None") => (h_codes = <<>>)
    /\ signal_word \in {"DANGER", "WARNING", "None"}

\* A moderate code first, a severe code after it: DANGER all the same.
C10_Witness ==
  /\ haz_pc = "done"
  /\ Len(h_codes) >= 2
  /\ h_codes[1] = "H302"
  /\ h_codes[Len(h_codes)] = "H314"
  /\ signal_word = "DANGER"

----------------------------------------------------------------------------
(* ChemicalNER.validate_cas_number (src/app/chemical_ner.py)                *)

Digits == {"0", "1", "2", "3", "4", "5", "6", "7", "8", "9"}

\* int(d) of one decimal digit
DigitVal(d) ==
  CASE d = "0" -> 0 [] d = "1" -> 1 [] d = "2" -> 2 [] d = "3" -> 3 [] d = "4" -> 4
    [] d = "5" -> 5 [] d = "6" -> 6 [] d = "7" -> 7 [] d = "8" -> 8 [] d = "9" -> 9

\* The strings a caller passes: head, separator, middle, separator, check
\* digit, and what follows the check digit.
CasHeads ==
  { <<"7", "6", "8", "1">>, <<"5", "0">>, <<"1">>, <<"a", "1">>, <<>>,
    <<"1", "2", "3", "4", "5", "6", "7">>,
    <<"1", "2", "3", "4", "5", "6", "7", "8">> }
CasMids == { <<"5", "2">>, <<"0", "0">>, <<"5">>, <<"5", "2", "1">> }
CasChecks == {<<d>> : d \in Digits} \cup { <<>>, <<"9", "9">> }
CasTails == { <<>>, <<"\n">>, <<"a">>, <<"\n", "\n">> }
CasSeps == {"-", " "}

InputCas ==
  { h \o <<sep>> \o m \o <<sep>> \o c \o t :
      h \in CasHeads, sep \in CasSeps, m \in CasMids, c \in CasChecks, t \in CasTails }

\* the length of the longest run of digits at the start of s, at most `most`
RECURSIVE DigitRun(_, _)
DigitRun(s, most) ==
  IF most = 0 \/ s = <<>> \/ Head(s) \notin Digits THEN 0
  ELSE 1 + DigitRun(Tail(s), most - 1)

\* `$` without re.MULTILINE: at the end of the string, or just before a
\* newline that is the last character
AtDollar(s) == s = <<>> \/ s = <<"\n">>

\* re.match(r'^\d{2,7}-\d{2}-\d$', cas): the head is followed by a dash, so
\* the greedy run of digits is the only split that can match
MatchesCasPattern(s) ==
  LET n == DigitRun(s, 7) IN
  /\ n >= 2
  /\ Len(s) >= n + 5
  /\ s[n + 1] = "-"
  /\ s[n + 2] \in Digits /\ s[n + 3] \in Digits
  /\ s[n + 4] = "-"
  /\ s[n + 5] \in Digits
  /\ AtDollar(SubSeq(s, n + 6, Len(s)))

\* cas.replace('-', '')
RECURSIVE RemoveDashes(_)
RemoveDashes(s) ==
  IF s = <<>> THEN <<>>
  ELSE IF Head(s) = "-" THEN RemoveDashes(Tail(s))
  ELSE <<Head(s)>> \o RemoveDashes(Tail(s))

\* sum(int(d) * (i + 1) for i, d in enumerate(digits[-2::-1])), taking the
\* characters from the one before the last down to the first; k = i + 1
RECURSIVE WeightedSum(_, _)
WeightedSum(ds, k) ==
  IF k >= Len(ds) THEN 0
  ELSE DigitVal(ds[Len(ds) - k]) * k + WeightedSum(ds, k + 1)

validate_cas_number(s) ==
  IF ~MatchesCasPattern(s) THEN "False"
  ELSE LET digits == RemoveDashes(s) IN
       \* int(digits[-1]) of a character that is no digit
       IF digits[Len(digits)] \notin Digits THEN "ValueError"
       ELSE IF DigitVal(digits[Len(digits)]) = WeightedSum(digits, 1) % 10
            THEN "True" ELSE "False"

NerIdle == ner_text = <<>> /\ entities = <<>> /\ cas_numbers = <<>> /\ ner_pc = "idle"

CasIdle == cas = <<>> /\ cas_result = "" /\ cas_pc = "idle" /\ NerIdle

CasInit == cas \in InputCas /\ cas_result = "" /\ cas_pc = "call" /\ NerIdle

ValidateCasNumber ==
  /\ cas_pc = "call"
  /\ cas_result' = validate_cas_number(cas)
  /\ cas_pc' = "done"
  /\ UNCHANGED <<cas, ner_text, entities, cas_numbers, ner_pc, notCas>>

CasNext == ValidateCasNumber

\* The form <2-7 digits>-<2 digits>-<1 digit>, and nothing else in the string.
HasCasForm(s) ==
  \E n \in 2..7 :
    /\ Len(s) = n + 5
    /\ \A i \in (1..n) \cup {n + 2, n + 3, n + 5} : s[i] \in Digits
    /\ s[n + 1] = "-" /\ s[n + 4] = "-"

\* The digits before the check digit, the rightmost first.
RestReversed(s) ==
  LET ds == SelectSeq(SubSeq(s, 1, Len(s) - 1), LAMBDA c : c \in Digits)
  IN [i \in 1..Len(ds) |-> ds[Len(ds) + 1 - i]]

RECURSIVE SumWeighted(_, _)
SumWeighted(rev, i) ==
  IF i > Len(rev) THEN 0 ELSE DigitVal(rev[i]) * i + SumWeighted(rev, i + 1)

CheckDigitOk(s) == DigitVal(s[Len(s)]) = SumWeighted(RestReversed(s), 1) % 10

\* C9: validate_cas_number(s) returns true exactly when s has the form
\* <2-7 digits>-<2 digits>-<1 digit> and its last digit is the weighted sum of
\* the other digits mod 10, and returns false for every other string.
C9_ValidateCas ==
  cas_pc = "done" =>
    /\ cas_result \in {"True", "False"}
    /\ (cas_result = "True") <=> (HasCasForm(cas) /\ CheckDigitOk(cas))

\* The part of C9 the code does keep: whenever it answers, true is answered
\* exactly for the well formed strings with the right check digit.
C9_AnswersAreRight ==
  (cas_pc = "done" /\ cas_result \in {"True", "False"}) =>
    ((cas_result = "True") <=> (HasCasForm(cas) /\ CheckDigitOk(cas)))

----------------------------------------------------------------------------
(* Document text (src/app/extractors.py).  A text is a sequence of tokens: *)
(* a run of letters, a run of digits, or one other character.              *)

WordToks ==
  { "Product", "PRODUCT", "Name", "Trade", "Signal", "word", "Danger",
    "WARNING", "Dangerous", "Causes", "May", "cause", "severe", "burns",
    "Sodium", "hypochlorite", "Water", "Bleach", "Inhalation",
    "Composition", "Substances", "Component", "First", "aid", "Produkt",
    "Kount", "count", "flag", "yes", "Commercial", "NAME", "COUNT", "FLAG",
    "product", "name", "trade", "A*10000", "XXXXX", "Regular", "PERSONAL",
    "PROTECTION", "ACGIH", "TLV", "Chemical", "CAS", "No" }

NumToks == { "7681", "52", "9", "5", "10", "3", "1", "4", "2", "231", "668", "234" }

\* len(token) in characters
TokLen ==
  ("Product" :> 7) @@ ("PRODUCT" :> 7) @@ ("Name" :> 4) @@ ("Trade" :> 5) @@
  ("Signal" :> 6) @@ ("word" :> 4) @@ ("Danger" :> 6) @@ ("WARNING" :> 7) @@
  ("Dangerous" :> 9) @@ ("Causes" :> 6) @@ ("May" :> 3) @@ ("cause" :> 5) @@
  ("severe" :> 6) @@ ("burns" :> 5) @@ ("Sodium" :> 6) @@
  ("hypochlorite" :> 12) @@ ("Water" :> 5) @@ ("Bleach" :> 6) @@
  ("Inhalation" :> 10) @@ ("Composition" :> 11) @@ ("Substances" :> 10) @@
  ("Component" :> 9) @@ ("First" :> 5) @@ ("aid" :> 3) @@ ("Produkt" :> 7) @@
  ("Kount" :> 5) @@ ("count" :> 5) @@ ("flag" :> 4) @@ ("yes" :> 3) @@
  ("Commercial" :> 10) @@ ("NAME" :> 4) @@ ("COUNT" :> 5) @@ ("FLAG" :> 4) @@
  ("product" :> 7) @@ ("name" :> 4) @@ ("trade" :> 5) @@
  ("A*10000" :> 10000) @@ ("XXXXX" :> 5) @@ ("Regular" :> 7) @@
  ("PERSONAL" :> 8) @@ ("PROTECTION" :> 10) @@ ("ACGIH" :> 5) @@
  ("TLV" :> 3) @@ ("Chemical" :> 8) @@ ("CAS" :> 3) @@ ("No" :> 2) @@
  ("productName" :> 11) @@ ("productname" :> 11) @@ ("PRODUCTNAME" :> 11) @@
  ("chemicalName" :> 12) @@ ("chemicalname" :> 12) @@
  ("CHEMICALNAME" :> 12) @@ ("casNumber" :> 9) @@ ("casnumber" :> 9) @@
  ("CASNUMBER" :> 9) @@ ("weightPercent" :> 13) @@ ("weightpercent" :> 13) @@
  ("WEIGHTPERCENT" :> 13) @@ ("Cas" :> 3) @@ ("NUMBER" :> 6) @@
  ("PERCENT" :> 7) @@ ("cas" :> 3) @@ ("no" :> 2) @@ ("Number" :> 6) @@
  ("number" :> 6) @@ ("CASNO" :> 5) @@ ("casno" :> 5) @@
  ("Registration" :> 12) @@ ("Reg" :> 3) @@ ("Registry" :> 8) @@
  ("REACH" :> 5) @@ ("chemical" :> 8) @@ ("CHEMICAL" :> 8) @@
  ("component" :> 9) @@ ("COMPONENT" :> 9) @@ ("Substance" :> 9) @@
  ("substance" :> 9) @@ ("Material" :> 8) @@ ("material" :> 8) @@
  ("EC" :> 2) @@ ("ec" :> 2) @@ ("ECNO" :> 4) @@ ("ecno" :> 4) @@
  ("European" :> 8) @@ ("Community" :> 9) @@ ("Weight" :> 6) @@
  ("weight" :> 6) @@ ("WEIGHT" :> 6) @@ ("Percent" :> 7) @@ ("Wt" :> 2) @@
  ("wt" :> 2) @@ ("WT" :> 2) @@ ("Concentration" :> 13) @@
  ("concentration" :> 13) @@ ("7681" :> 4) @@ ("52" :> 2) @@ ("9" :> 1) @@
  ("5" :> 1) @@ ("10" :> 2) @@ ("3" :> 1) @@ ("1" :> 1) @@ ("4" :> 1) @@
  ("2" :> 1) @@ ("231" :> 3) @@ ("668" :> 3) @@ ("234" :> 3)

\* token.lower()
Lower ==
  ("Product" :> "product") @@ ("PRODUCT" :> "product") @@
  ("Name" :> "name") @@ ("Trade" :> "trade") @@ ("Signal" :> "signal") @@
  ("word" :> "word") @@ ("Danger" :> "danger") @@ ("WARNING" :> "warning") @@
  ("Dangerous" :> "dangerous") @@ ("Causes" :> "causes") @@
  ("May" :> "may") @@ ("cause" :> "cause") @@ ("severe" :> "severe") @@
  ("burns" :> "burns") @@ ("Sodium" :> "sodium") @@
  ("hypochlorite" :> "hypochlorite") @@ ("Water" :> "water") @@
  ("Bleach" :> "bleach") @@ ("Inhalation" :> "inhalation") @@
  ("Composition" :> "composition") @@ ("Substances" :> "substances") @@
  ("Component" :> "component") @@ ("First" :> "first") @@ ("aid" :> "aid") @@
  ("Produkt" :> "produkt") @@ ("Kount" :> "kount") @@ ("count" :> "count") @@
  ("flag" :> "flag") @@ ("yes" :> "yes") @@ ("Commercial" :> "commercial") @@
  ("NAME" :> "name") @@ ("COUNT" :> "count") @@ ("FLAG" :> "flag") @@
  ("product" :> "product") @@ ("name" :> "name") @@ ("trade" :> "trade") @@
  ("A*10000" :> "a*10000") @@ ("XXXXX" :> "xxxxx") @@
  ("Regular" :> "regular") @@ ("PERSONAL" :> "personal") @@
  ("PROTECTION" :> "protection") @@ ("ACGIH" :> "acgih") @@
  ("TLV" :> "tlv") @@ ("Chemical" :> "chemical") @@ ("CAS" :> "cas") @@
  ("No" :> "no") @@ ("productName" :> "productname") @@
  ("productname" :> "productname") @@ ("PRODUCTNAME" :> "productname") @@
  ("chemicalName" :> "chemicalname") @@ ("chemicalname" :> "chemicalname") @@
  ("CHEMICALNAME" :> "chemicalname") @@ ("casNumber" :> "casnumber") @@
  ("casnumber" :> "casnumber") @@ ("CASNUMBER" :> "casnumber") @@
  ("weightPercent" :> "weightpercent") @@
  ("weightpercent" :> "weightpercent") @@
  ("WEIGHTPERCENT" :> "weightpercent") @@ ("Cas" :> "cas") @@
  ("NUMBER" :> "number") @@ ("PERCENT" :> "percent") @@ ("cas" :> "cas") @@
  ("no" :> "no") @@ ("Number" :> "number") @@ ("number" :> "number") @@
  ("CASNO" :> "casno") @@ ("casno" :> "casno") @@
  ("Registration" :> "registration") @@ ("Reg" :> "reg") @@
  ("Registry" :> "registry") @@ ("REACH" :> "reach") @@
  ("chemical" :> "chemical") @@ ("CHEMICAL" :> "chemical") @@
  ("component" :> "component") @@ ("COMPONENT" :> "component") @@
  ("Substance" :> "substance") @@ ("substance" :> "substance") @@
  ("Material" :> "material") @@ ("material" :> "material") @@
  ("EC" :> "ec") @@ ("ec" :> "ec") @@ ("ECNO" :> "ecno") @@
  ("ecno" :> "ecno") @@ ("European" :> "european") @@
  ("Community" :> "community") @@ ("Weight" :> "weight") @@
  ("weight" :> "weight") @@ ("WEIGHT" :> "weight") @@
  ("Percent" :> "percent") @@ ("Wt" :> "wt") @@ ("wt" :> "wt") @@
  ("WT" :> "wt") @@ ("Concentration" :> "concentration") @@
  ("concentration" :> "concentration")

\* token.upper()
Upper ==
  ("productName" :> "PRODUCTNAME") @@ ("product" :> "PRODUCT") @@
  ("Name" :> "NAME") @@ ("count" :> "COUNT") @@ ("flag" :> "FLAG") @@
  ("chemicalName" :> "CHEMICALNAME") @@ ("chemical" :> "CHEMICAL") @@
  ("casNumber" :> "CASNUMBER") @@ ("cas" :> "CAS") @@
  ("Number" :> "NUMBER") @@ ("weightPercent" :> "WEIGHTPERCENT") @@
  ("weight" :> "WEIGHT") @@ ("Percent" :> "PERCENT")

\* token.title()
Title ==
  ("product" :> "Product") @@ ("Name" :> "Name") @@
  ("chemical" :> "Chemical") @@ ("cas" :> "Cas") @@ ("Number" :> "Number") @@
  ("weight" :> "Weight") @@ ("Percent" :> "Percent")

\* the words of field names and aliases that no text holds
AliasToks ==
  { "productName", "productname", "PRODUCTNAME", "chemicalName",
    "chemicalname", "CHEMICALNAME", "casNumber", "casnumber", "CASNUMBER",
    "weightPercent", "weightpercent", "WEIGHTPERCENT", "Cas", "NUMBER",
    "PERCENT", "cas", "no", "Number", "number", "CASNO", "casno",
    "Registration", "Reg", "Registry", "REACH", "chemical", "CHEMICAL",
    "component", "COMPONENT", "Substance", "substance", "Material",
    "material", "EC", "ec", "ECNO", "ecno", "European", "Community",
    "Weight", "weight", "WEIGHT", "Percent", "Wt", "wt", "WT",
    "Concentration", "concentration" }

\* the characters that are tokens of their own; "#" stands for a character
\* that is neither a letter, a digit, white space nor punctuation
CharToks == { " ", "\n", ":", "-", ".", "%", ",", "#", "=", "|", "_" }

\* re \s, and what str.strip() removes
Space == { " ", "\n" }

LowerOf(t) == IF t \in DOMAIN Lower THEN Lower[t] ELSE t

CharLenTok(t) == IF t \in CharToks THEN 1 ELSE TokLen[t]

\* len(s) of a token sequence
RECURSIVE CharLen(_)
CharLen(s) == IF s = <<>> THEN 0 ELSE CharLenTok(Head(s)) + CharLen(Tail(s))

\* the words of the vocabulary that begin with a literal of the patterns and
\* go on after it (none ends with one and begins before it)
PrefixFacts == { <<"Dangerous", "danger">>, <<"Causes", "cause">> }

StartsWithLit(t, lit) == LowerOf(t) = lit \/ <<t, lit>> \in PrefixFacts
EndsWithLit(t, lit) == LowerOf(t) = lit

\* str.strip()
RECURSIVE PyLStrip(_)
PyLStrip(s) == IF s # <<>> /\ Head(s) \in Space THEN PyLStrip(Tail(s)) ELSE s
RECURSIVE PyRStrip(_)
PyRStrip(s) ==
  IF s # <<>> /\ s[Len(s)] \in Space THEN PyRStrip(SubSeq(s, 1, Len(s) - 1)) ELSE s
PyStrip(s) == PyRStrip(PyLStrip(s))

\* the least element of a set of positions, 0 if it is empty
First(S) == IF S = {} THEN 0 ELSE CHOOSE x \in S : \A y \in S : x <= y

\* the first position at or after i whose token is not in class,
\* Len(text) + 1 if none
RunEnd(text, i, class) ==
  LET e == First({j \in i..Len(text) : text[j] \notin class})
  IN IF e = 0 THEN Len(text) + 1 ELSE e

\* the number of tokens from position i on that are in class
RunLen(text, i, class) == IF i > Len(text) THEN 0 ELSE RunEnd(text, i, class) - i

\* the position of the first newline at or after i, Len(text) + 1 if none
LineEndFrom(text, i) ==
  LET e == First({j \in i..Len(text) : text[j] = "\n"})
  IN IF e = 0 THEN Len(text) + 1 ELSE e

\* a case-insensitive literal of a pattern at position i: it may begin
\* inside the first token, every later token is matched whole
LitAt(text, i, lits) ==
  /\ i + Len(lits) - 1 <= Len(text)
  /\ EndsWithLit(text[i], lits[1])
  /\ \A k \in 2..Len(lits) : LowerOf(text[i + k - 1]) = lits[k]

\* class+([^\n]+) at position s: the start of the group, 0 if no match.
\* The class run is greedy and gives characters back until one that is no
\* newline follows.
GroupStart(text, s, class) ==
  LET k == RunLen(text, s, class)
      J == {j \in 1..k : s + j <= Len(text) /\ text[s + j] # "\n"}
  IN IF J = {} THEN 0 ELSE s + CHOOSE j \in J : \A j2 \in J : j2 <= j

\* re.search(lit + class + "([^\n]+)", text, re.IGNORECASE): the leftmost
\* position where the pattern matches, 0 if none
SearchLabel(text, lits, class) ==
  LET M == {i \in 1..Len(text) :
              LitAt(text, i, lits) /\ GroupStart(text, i + Len(lits), class) # 0}
  IN IF M = {} THEN 0 ELSE CHOOSE i \in M : \A i2 \in M : i <= i2

\* match.group(1) of that match
LabelGroup(text, i, lits, class) ==
  LET b == GroupStart(text, i + Len(lits), class)
  IN SubSeq(text, b, LineEndFrom(text, b) - 1)

None == [kind |-> "None", toks |-> <<>>, n |-> 0]
PyBool(b) == [kind |-> "bool", toks |-> <<>>, n |-> IF b THEN 1 ELSE 0]
PyList(n) == [kind |-> "list", toks |-> <<>>, n |-> n]

ProductNamePatterns ==
  << <<"product", " ", "name">>, <<"product">>, <<"trade", " ", "name">> >>

RECURSIVE ProductNameFrom(_, _)
ProductNameFrom(text, k) ==
  IF k > Len(ProductNamePatterns) THEN None
  ELSE LET lits == ProductNamePatterns[k]
           i == SearchLabel(text, lits, {":"} \cup Space)
       IN IF i # 0 THEN Str(PyStrip(LabelGroup(text, i, lits, {":"} \cup Space)))
          ELSE ProductNameFrom(text, k + 1)

extract_product_name(text) == ProductNameFrom(text, 1)

\* re.search(r"Signal word[:\s]+(Danger|Warning)", text, re.IGNORECASE)
SignalWordMatches(text) ==
  {i \in 1..Len(text) :
     /\ LitAt(text, i, <<"signal", " ", "word">>)
     /\ LET k == RunLen(text, i + 3, {":"} \cup Space)
        IN /\ k >= 1
           /\ i + 3 + k <= Len(text)
           /\ \/ StartsWithLit(text[i + 3 + k], "danger")
              \/ StartsWithLit(text[i + 3 + k], "warning")}

\* match.group(1).capitalize() if match else None
extract_signal_word(text) ==
  LET M == SignalWordMatches(text) IN
  IF M = {} THEN None
  ELSE LET i == CHOOSE x \in M : \A y \in M : x <= y
           t == text[i + 3 + RunLen(text, i + 3, {":"} \cup Space)]
       IN IF StartsWithLit(t, "danger") THEN Str(<<"Danger">>) ELSE Str(<<"Warning">>)

HazardPatterns ==
  << <<"causes">>, <<"may", " ", "cause">>, <<"fatal", " ", "if">>,
     <<"harmful", " ", "if">>, <<"toxic", " ", "if">> >>

\* re.findall(r"(<lit>\s+[^\n]+)", text, re.IGNORECASE) from position i on:
\* the matches from left to right, none overlapping the one before
StatementAt(text, i, lits) ==
  LitAt(text, i, lits) /\ GroupStart(text, i + Len(lits), Space) # 0

RECURSIVE FindStatements(_, _, _)
FindStatements(text, i, lits) ==
  LET m == First({x \in i..Len(text) : StatementAt(text, x, lits)})
  IN IF m = 0 THEN <<>>
     ELSE LET e == LineEndFrom(text, GroupStart(text, m + Len(lits), Space))
          IN <<SubSeq(text, m, e - 1)>> \o FindStatements(text, e, lits)

EndsWithCommaSpace(s) == Len(s) >= 2 /\ s[Len(s) - 1] = "," /\ s[Len(s)] = " "

\* statement.strip(), kept if len(statement) > 10 and not statement.endswith(', ')
RECURSIVE KeepStatements(_)
KeepStatements(found) ==
  IF found = <<>> THEN <<>>
  ELSE LET statement == PyStrip(Head(found))
       IN (IF CharLen(statement) > 10 /\ ~EndsWithCommaSpace(statement)
           THEN <<statement>> ELSE <<>>) \o KeepStatements(Tail(found))

RECURSIVE StatementsFrom(_, _)
StatementsFrom(text, k) ==
  IF k > Len(HazardPatterns) THEN <<>>
  ELSE KeepStatements(FindStatements(text, 1, HazardPatterns[k]))
         \o StatementsFrom(text, k + 1)

\* the list of statements, each a token sequence
extract_hazard_statements(text) == StatementsFrom(text, 1)

\* the words of the vocabulary that contain a term without being it
ContainsFacts == { <<"Dangerous", "danger">>, <<"Causes", "cause">> }

\* term in token.lower()
TokContains(t, term) == LowerOf(t) = term \/ <<t, term>> \in ContainsFacts

\* An ingredient is a dict: a function from its keys to values.
IngredientKeys ==
  {"component", "ec_number", "cas_number", "weight_percent", "reach_number"}

\* \d{lo,hi} as a whole token
IsNum(t, lo, hi) == t \in NumToks /\ TokLen[t] >= lo /\ TokLen[t] <= hi

\* <lo-hi digits>-<mid digits>-<1 digit> at position p
NumTripleAt(text, p, lo, hi, mid) ==
  /\ p + 4 <= Len(text)
  /\ IsNum(text[p], lo, hi)
  /\ text[p + 1] = "-"
  /\ IsNum(text[p + 2], mid, mid)
  /\ text[p + 3] = "-"
  /\ IsNum(text[p + 4], 1, 1)

\* [A-Za-z\s\-,\(\)]
NameClass == WordToks \cup Space \cup {"-", ","}
\* [\d\.\-\s%]
WeightClass == NumToks \cup Space \cup {".", "-", "%"}

\* the length of the run of white space that ends at position q
SpaceRunBack(text, q) ==
  LET NotSpace == {j \in 1..q : text[j] \notin Space}
  IN IF NotSpace = {} THEN q ELSE q - CHOOSE j \in NotSpace : \A j2 \in NotSpace : j2 <= j

\* The pattern of _extract_pattern_ingredients at position i.  Group 1
\* starts at a word and is lazy: it ends where the white space before the
\* first number begins (every word of the vocabulary has the two characters
\* the group needs).  The number must be the registry number; the white
\* space after it is greedy and leaves group 3 at least one character.
PatternAt(text, i) ==
  /\ text[i] \in WordToks
  /\ LET p == i + RunLen(text, i, NameClass)
     IN /\ text[p - 1] \in Space
        /\ NumTripleAt(text, p, 3, 5, 2)
        /\ RunLen(text, p + 5, Space) >= 1
        /\ RunLen(text, p + 5, WeightClass) >= 2

\* the three groups of the match at i, and the position after the match
PatternGroups(text, i) ==
  LET p == i + RunLen(text, i, NameClass)
      w == RunLen(text, p + 5, Space)
      r == RunLen(text, p + 5, WeightClass)
      g == IF r > w THEN p + 5 + w ELSE p + 5 + w - 1
  IN [chemical |-> SubSeq(text, i, p - 1 - SpaceRunBack(text, p - 1)),
      cas |-> SubSeq(text, p, p + 4),
      weight |-> SubSeq(text, g, p + 4 + r),
      end |-> p + 5 + r]

\* pattern.findall(text)
RECURSIVE PatternFindAll(_, _)
PatternFindAll(text, i) ==
  LET m == First({x \in i..Len(text) : PatternAt(text, x)})
  IN IF m = 0 THEN <<>>
     ELSE <<PatternGroups(text, m)>> \o PatternFindAll(text, PatternGroups(text, m).end)

\* re.sub(r'\s+', ' ', s)
RECURSIVE CollapseSpace(_)
CollapseSpace(s) ==
  IF s = <<>> THEN <<>>
  ELSE IF Head(s) \in Space
       THEN <<" ">> \o CollapseSpace(SubSeq(s, 1 + RunLen(s, 1, Space), Len(s)))
       ELSE <<Head(s)>> \o CollapseSpace(Tail(s))

\* unwanted_keywords, lowercased: the ones of one word and the ones of two
UnwantedWords == {"inhalation", "iarc", "ntp", "cwa", "reportable", "quantities"}
UnwantedPairs ==
  { <<"personal", "protection">>, <<"control", "parameters">>,
    <<"exposure", "guidelines">>, <<"acgih", "tlv">>, <<"osha", "pel">>,
    <<"niosh", "idlh">>, <<"toxic", "pollutants">> }

\* any(keyword.lower() in chemical.lower() for keyword in unwanted_keywords)
HasUnwantedKeyword(chemical) ==
  \/ \E k \in 1..Len(chemical) : \E w \in UnwantedWords : TokContains(chemical[k], w)
  \/ \E k \in 1..(Len(chemical) - 2) : \E pr \in UnwantedPairs :
       /\ EndsWithLit(chemical[k], pr[1])
       /\ chemical[k + 1] = " "
       /\ StartsWithLit(chemical[k + 2], pr[2])

RECURSIVE PatternIngredients(_)
PatternIngredients(matches) ==
  IF matches = <<>> THEN <<>>
  ELSE LET m == Head(matches)
           chemical == CollapseSpace(PyStrip(m.chemical))
           weight == PyStrip(m.weight)
       IN (IF ~HasUnwantedKeyword(chemical) /\ weight # <<>> /\ weight # <<"-">>
           THEN << ("component" :> Str(chemical)) @@ ("cas_number" :> Str(m.cas))
                     @@ ("weight_percent" :> Str(weight)) >>
           ELSE <<>>) \o PatternIngredients(Tail(matches))

_extract_pattern_ingredients(text) == PatternIngredients(PatternFindAll(text, 1))

\* text.split('\n'): the lines of a text
SplitLines(text) ==
  LET nl == {j \in 1..Len(text) : text[j] = "\n"}
      \* the position of the k-th newline; 0 and Len(text) + 1 bound the text
      at == [k \in 0..(Cardinality(nl) + 1) |->
               IF k = 0 THEN 0
               ELSE IF k > Cardinality(nl) THEN Len(text) + 1
               ELSE CHOOSE j \in nl : Cardinality({x \in nl : x < j}) = k - 1]
  IN [k \in 1..(Cardinality(nl) + 1) |-> SubSeq(text, at[k - 1] + 1, at[k] - 1)]

LowerSeq(line) == [k \in 1..Len(line) |-> LowerOf(line[k])]

\* the lines _extract_structured_ingredients drops, lowercased
HeaderLines ==
  { <<"component">>, <<"ec", "-", "no", ".">>, <<"cas", "-", "no">>, <<"weight">>,
    <<"range">>, <<"classification">>, <<"reach">>, <<"registration">>,
    <<"number">>, <<"-">>, <<"%">> }

RECURSIVE CleanLines(_)
CleanLines(lines) ==
  IF lines = <<>> THEN <<>>
  ELSE LET line == PyStrip(Head(lines))
       IN (IF line # <<>> /\ LowerSeq(line) \notin HeaderLines THEN <<line>> ELSE <<>>)
            \o CleanLines(Tail(lines))

\* re.match(r'^[A-Za-z][A-Za-z\s\-,\(\)]*$', line) and len(line) > 3
_is_chemical_name(line) ==
  /\ line # <<>>
  /\ Head(line) \in WordToks
  /\ \A k \in 1..Len(line) : line[k] \in NameClass
  /\ CharLen(line) > 3

\* re.match(r'^\d{3}-\d{3}-\d{1}$', line)
IsEcLine(line) == Len(line) = 5 /\ NumTripleAt(line, 1, 3, 3, 3)
\* re.match(r'^\d{2,4}-\d{2}-\d{1}$', line)
IsCasLine(line) == Len(line) = 5 /\ NumTripleAt(line, 1, 2, 4, 2)
\* re.match(r'^[\d\-\.%\s]+$', line) and any(char.isdigit() for char in line)
IsWeightLine(line) ==
  /\ line # <<>>
  /\ \A k \in 1..Len(line) : line[k] \in WeightClass
  /\ \E k \in 1..Len(line) : line[k] \in NumToks
\* re.match(r'^\d{2}-\d{10}-\d{2}-\w*', line)
IsReachLine(line) ==
  /\ Len(line) >= 6
  /\ IsNum(line[1], 2, 2) /\ line[2] = "-" /\ IsNum(line[3], 10, 10)
  /\ line[4] = "-" /\ IsNum(line[5], 2, 2) /\ line[6] = "-"

\* clean_lines is indexed from 1 here: current_index is the index of the
\* component line, current_index + 2 of the code is current_index + 2 here
_is_continuation_line(next_line, clean_lines, current_index) ==
  IF ~_is_chemical_name(next_line) \/ Head(next_line) \in NumToks THEN FALSE
  ELSE IF current_index + 2 <= Len(clean_lines)
       THEN IsEcLine(clean_lines[current_index + 2])
       ELSE FALSE

StopTerms == {"classified", "not", "danger", "warning"}

\* the component name that ends the look-ahead
IsNextComponent(line) ==
  /\ _is_chemical_name(line)
  /\ CharLen(line) > 10
  /\ ~\E k \in 1..Len(line) : \E term \in StopTerms : TokContains(line[k], term)

\* the look-ahead loop from line j on, to line last; found holds ec_number,
\* cas_number, weight_percent and reach_number
RECURSIVE LookAhead(_, _, _, _)
LookAhead(clean_lines, j, last, found) ==
  IF j > last THEN found
  ELSE LET check_line == clean_lines[j] IN
    IF IsEcLine(check_line)
    THEN LookAhead(clean_lines, j + 1, last, [found EXCEPT !["ec_number"] = Str(check_line)])
    ELSE IF IsCasLine(check_line)
    THEN LookAhead(clean_lines, j + 1, last, [found EXCEPT !["cas_number"] = Str(check_line)])
    ELSE IF IsWeightLine(check_line)
    THEN LookAhead(clean_lines, j + 1, last,
           IF found["weight_percent"] = None /\ CharLen(check_line) < 20
           THEN [found EXCEPT !["weight_percent"] = Str(check_line)] ELSE found)
    ELSE IF IsReachLine(check_line)
    THEN LookAhead(clean_lines, j + 1, last, [found EXCEPT !["reach_number"] = Str(check_line)])
    ELSE IF IsNextComponent(check_line) THEN found
    ELSE LookAhead(clean_lines, j + 1, last, found)

Min(a, b) == IF a <= b THEN a ELSE b

\* start_index is the index from 1 of the line the look-ahead starts after;
\* the result is the ingredient, or None when no registry number was found
_extract_ingredient_identifiers(clean_lines, start_index, component_name) ==
  LET found == LookAhead(clean_lines, start_index + 1,
                         Min(start_index + 14, Len(clean_lines)),
                         [k \in IngredientKeys \ {"component"} |-> None])
  IN IF component_name # <<>> /\ found["cas_number"] # None
     THEN ("component" :> Str(component_name)) @@ found
     ELSE None

\* the while loop of _extract_structured_ingredients from index i on
RECURSIVE StructuredFrom(_, _)
StructuredFrom(clean_lines, i) ==
  IF i > Len(clean_lines) THEN <<>>
  ELSE LET line == clean_lines[i] IN
    IF ~_is_chemical_name(line) THEN StructuredFrom(clean_lines, i + 1)
    ELSE LET joined == /\ i + 1 <= Len(clean_lines)
                       /\ _is_continuation_line(clean_lines[i + 1], clean_lines, i)
             component_name == IF joined THEN line \o <<" ">> \o clean_lines[i + 1] ELSE line
             at == IF joined THEN i + 1 ELSE i
             ingredient_data == _extract_ingredient_identifiers(clean_lines, at, component_name)
         IN (IF ingredient_data # None THEN <<ingredient_data>> ELSE <<>>)
              \o StructuredFrom(clean_lines, at + 1)

_extract_structured_ingredients(table_section) ==
  StructuredFrom(CleanLines(SplitLines(table_section)), 1)

\* a number of the vocabulary that ends with the digit d: d itself;
\* one that begins with d: d itself, or one of NumPrefixFacts
NumPrefixFacts == { <<"231", "2">>, <<"10", "1">> }
NumEndsWith(t, d) == t = d
NumStartsWith(t, d) == t = d \/ <<t, d>> \in NumPrefixFacts

\* 3\.\s*Composition at position i: the position after it, 0 if no match
CompositionAt(text, i) ==
  IF /\ i + 2 <= Len(text)
     /\ NumEndsWith(text[i], "3")
     /\ text[i + 1] = "."
     /\ i + 2 + RunLen(text, i + 2, Space) <= Len(text)
     /\ StartsWithLit(text[i + 2 + RunLen(text, i + 2, Space)], "composition")
  THEN i + 3 + RunLen(text, i + 2, Space) ELSE 0

\* 3\.1\s*Substances at position j: the position after it, 0 if no match
SubstancesAt(text, j) ==
  IF /\ j + 3 <= Len(text)
     /\ NumEndsWith(text[j], "3")
     /\ text[j + 1] = "."
     /\ text[j + 2] = "1"
     /\ j + 3 + RunLen(text, j + 3, Space) <= Len(text)
     /\ StartsWithLit(text[j + 3 + RunLen(text, j + 3, Space)], "substances")
  THEN j + 4 + RunLen(text, j + 3, Space) ELSE 0

\* (?:3\.2|4\.) at position e
SectionEndAt(text, e) ==
  \/ /\ e + 2 <= Len(text)
     /\ NumEndsWith(text[e], "3") /\ text[e + 1] = "." /\ NumStartsWith(text[e + 2], "2")
  \/ /\ e + 1 <= Len(text)
     /\ NumEndsWith(text[e], "4") /\ text[e + 1] = "."

\* re.search(r'3\.\s*Composition.*?3\.1\s*Substances(.*?)(?:3\.2|4\.)', text,
\* re.DOTALL | re.IGNORECASE): group(1) if it matches, else the text.  Both
\* .*? are lazy: the first heading after the title, the first end after it.
TableSection(text) ==
  LET P == 1..Len(text)
      i == First({x \in P :
             /\ CompositionAt(text, x) # 0
             /\ \E j \in P : /\ j >= CompositionAt(text, x)
                             /\ SubstancesAt(text, j) # 0
                             /\ \E e \in P : e >= SubstancesAt(text, j) /\ SectionEndAt(text, e)})
  IN IF i = 0 THEN text
     ELSE LET j == First({x \in P : x >= CompositionAt(text, i) /\ SubstancesAt(text, x) # 0})
              b == SubstancesAt(text, j)
              e == First({x \in P : x >= b /\ SectionEndAt(text, x)})
          IN SubSeq(text, b, e - 1)

\* structured extraction of the section first, the pattern over the whole
\* text if it finds nothing
extract_ingredient_data(text) ==
  LET ingredients == _extract_structured_ingredients(TableSection(text))
  IN IF ingredients = <<>> THEN _extract_pattern_ingredients(text) ELSE ingredients

----------------------------------------------------------------------------
(* map_schema_to_data (src/app/mappers.py).  A schema and a result are     *)
(* trees: the item of a list at Python index k is under the key Idx(k).    *)

Idx(k) == <<"[", ToString(k), "]">>

\* the subtree of tree at path p
Subtree(tree, p) ==
  [r \in {SubSeq(q, Len(p) + 1, Len(q)) : q \in {x \in DOMAIN tree : IsPrefix(p, x)}}
     |-> tree[p \o r]]

\* the keys of the dict (or the indices of the list) at the root of tree
Keys(tree) == {q[1] : q \in {x \in DOMAIN tree : x # <<>>}}

\* the tree with value v at the root and subs[k] under each key k
Graft(v, subs) ==
  [q \in {<<>>} \cup UNION {{<<k>> \o r : r \in DOMAIN subs[k]} : k \in DOMAIN subs}
     |-> IF q = <<>> THEN v ELSE subs[q[1]][Tail(q)]]

\* the list whose items are the trees of the sequence items
ListOf(items) ==
  Graft(PyList(Len(items)),
        [k \in {Idx(j - 1) : j \in 1..Len(items)}
           |-> items[CHOOSE j \in 1..Len(items) : Idx(j - 1) = k]])

\* term in name.lower(), for the field names and leaf values of the schemas
NameFacts ==
  { <<"productName", "productname">>, <<"productName", "name">>,
    <<"productName", "product">>, <<"productname", "name">>,
    <<"productname", "product">>, <<"PRODUCTNAME", "name">>,
    <<"PRODUCTNAME", "product">>, <<"CASNO", "cas">>, <<"CASNO", "no">>,
    <<"casno", "cas">>, <<"casno", "no">>, <<"ECNO", "ec">>, <<"ECNO", "no">>,
    <<"ecno", "ec">>, <<"ecno", "no">>,
    <<"signalWord", "signalword">>,
    <<"hazardStatements", "hazardstatement">>,
    <<"hazardStatements", "hazard">>, <<"hazardStatements", "statement">>,
    <<"hazardStatement", "hazardstatement">>,
    <<"hazardStatement", "hazard">>, <<"hazardStatement", "statement">>,
    <<"chemicalName", "chemical">>, <<"chemicalName", "name">>,
    <<"casNumber", "cas">>, <<"casNumber", "number">>,
    <<"casnumber", "cas">>, <<"casnumber", "number">>,
    <<"CASNUMBER", "cas">>, <<"CASNUMBER", "number">>,
    <<"chemicalname", "chemical">>, <<"chemicalname", "name">>,
    <<"CHEMICALNAME", "chemical">>, <<"CHEMICALNAME", "name">>,
    <<"weightpercent", "weight">>, <<"weightpercent", "percent">>,
    <<"WEIGHTPERCENT", "weight">>, <<"WEIGHTPERCENT", "percent">>,
    <<"weightPercent", "weight">>,
    <<"weightPercent", "percent">>, <<"ecNumber", "ec">>,
    <<"hazard", "hazard">>, <<"_field_name", "name">>, <<"object", "ec">>,
    <<"array_of_objects", "ec">> }

NameContains(name, term) == \E k \in 1..Len(name) : <<name[k], term>> \in NameFacts
NameContainsAny(name, terms) == \E term \in terms : NameContains(name, term)

chemical_indicators == {"component", "chemical", "substance", "cas", "reach", "ec"}
hazard_indicators == {"hazard", "statement", "warning", "danger"}

_determine_extraction_strategy(field_names) ==
  IF \E field \in field_names : NameContainsAny(field, chemical_indicators)
  THEN "ingredients"
  ELSE IF \E field \in field_names : NameContainsAny(field, hazard_indicators)
       THEN "hazards"
       ELSE "unknown"

_extract_field_from_text(field_name, text) == None

\* ingredient_data.get(key, '')
IngredientGet(ingredient_data, key) ==
  IF key \in DOMAIN ingredient_data THEN ingredient_data[key] ELSE Str(<<>>)

_map_ingredient_field(field_name, ingredient_data, text) ==
  IF NameContainsAny(field_name, {"component", "name", "substance", "chemical"})
  THEN IngredientGet(ingredient_data, "component")
  ELSE IF NameContains(field_name, "cas") THEN IngredientGet(ingredient_data, "cas_number")
  ELSE IF NameContains(field_name, "reach") THEN IngredientGet(ingredient_data, "reach_number")
  ELSE IF NameContainsAny(field_name, {"weight", "percent", "concentration"})
  THEN IngredientGet(ingredient_data, "weight_percent")
  ELSE IF NameContains(field_name, "ec") THEN IngredientGet(ingredient_data, "ec_number")
  ELSE IF NameContainsAny(field_name, {"classification", "class"})
  THEN IngredientGet(ingredient_data, "classification")
  ELSE _extract_field_from_text(field_name, text)

\* one item per ingredient, with the keys of schema_item
_map_ingredients_to_schema(ingredients, schema_item, text) ==
  ListOf([j \in 1..Len(ingredients) |->
            Graft(Dict, [field_name \in Keys(schema_item) |->
                           Leaf(_map_ingredient_field(field_name, ingredients[j], text))])])

_map_hazards_to_schema(hazard_statements, schema_item) ==
  ListOf([j \in 1..Len(hazard_statements) |-> Leaf(Str(hazard_statements[j]))])

\* a miss is replaced by the empty string
_map_primitive_schema_with_default(schema_value, text) ==
  IF schema_value.kind = "str" /\ NameContains(schema_value.toks, "productname")
  THEN Leaf(IF extract_product_name(text) = None THEN Str(<<>>)
            ELSE extract_product_name(text))
  ELSE IF schema_value.kind = "str" /\ NameContains(schema_value.toks, "signalword")
  THEN Leaf(IF extract_signal_word(text) = None THEN Str(<<>>)
            ELSE extract_signal_word(text))
  ELSE IF schema_value.kind = "str" /\ NameContains(schema_value.toks, "hazardstatement")
  THEN _map_hazards_to_schema(extract_hazard_statements(text), <<>>)
  ELSE Leaf(Str(<<>>))

_map_primitive_schema(schema_value, text) ==
  IF schema_value.kind = "str" /\ NameContains(schema_value.toks, "productname")
  THEN Leaf(extract_product_name(text))
  ELSE IF schema_value.kind = "str" /\ NameContains(schema_value.toks, "signalword")
  THEN Leaf(extract_signal_word(text))
  ELSE IF schema_value.kind = "str" /\ NameContains(schema_value.toks, "hazardstatement")
  THEN _map_hazards_to_schema(extract_hazard_statements(text), <<>>)
  ELSE Leaf(None)

\* a list with no item, or whose first item is no dict, maps to []
_map_array_schema(schema, text) ==
  IF schema[<<>>].n = 0 \/ schema[<<Idx(0)>>].kind # "dict" THEN ListOf(<<>>)
  ELSE LET array_item_schema == Subtree(schema, <<Idx(0)>>)
           extraction_strategy == _determine_extraction_strategy(Keys(array_item_schema))
       IN IF extraction_strategy = "ingredients"
          THEN _map_ingredients_to_schema(extract_ingredient_data(text), array_item_schema, text)
          ELSE IF extraction_strategy = "hazards"
          THEN _map_hazards_to_schema(extract_hazard_statements(text), array_item_schema)
          ELSE ListOf(<<>>)

RECURSIVE map_schema_to_data(_, _)

\* result[key] is set only when a value was found
_map_object_schema_skipping_none(schema, text) ==
  Graft(Dict, [key \in {k \in Keys(schema) :
                          map_schema_to_data(Subtree(schema, <<k>>), text) # Leaf(None)}
                 |-> map_schema_to_data(Subtree(schema, <<key>>), text)])

_map_object_schema(schema, text) ==
  Graft(Dict, [key \in Keys(schema) |-> map_schema_to_data(Subtree(schema, <<key>>), text)])

map_schema_to_data(schema, text) ==
  IF schema[<<>>].kind = "dict" THEN _map_object_schema(schema, text)
  ELSE IF schema[<<>>].kind = "list" THEN _map_array_schema(schema, text)
  ELSE _map_primitive_schema(schema[<<>>], text)

\* the dict with the subtree fields[name] under each key <<name>>
ObjOf(fields) == Graft(Dict, [k \in {<<name>> : name \in DOMAIN fields} |-> fields[k[1]]])

\* a leaf descriptor as the tests write it: the field's name
Named(name) == Leaf(Str(<<name>>))

IngredientItem ==
  ObjOf(("chemicalName" :> Named("chemicalName")) @@ ("casNumber" :> Named("casNumber"))
          @@ ("weightPercent" :> Named("weightPercent")))

\* the schema of test_deterministic_output
SchemaTest ==
  ObjOf(("productName" :> Named("productName"))
          @@ ("hazard" :> ObjOf(("signalWord" :> Named("signalWord"))
                                  @@ ("hazardStatements" :> Named("hazardStatements"))))
          @@ ("ingredients" :> ListOf(<<IngredientItem>>)))

\* leaves of every type, named as the tests name them
SchemaNames ==
  ObjOf(("productName" :> Named("productName")) @@ ("signalWord" :> Named("signalWord"))
          @@ ("count" :> Named("count")) @@ ("flag" :> Named("flag"))
          @@ ("items" :> ListOf(<<>>)))

\* what parse_ts_interface returns for
\* productName: string; count: number; flag: boolean; items: string[]
SchemaTyped ==
  Graft(Dict,
        (<<"productName">> :> FieldInfo(<<"productName">>, <<"string">>))
          @@ (<<"count">> :> FieldInfo(<<"count">>, <<"number">>))
          @@ (<<"flag">> :> FieldInfo(<<"flag">>, <<"boolean">>))
          @@ (<<"items">> :> FieldInfo(<<"items">>, <<"string", "[]">>)))

\* an array of hazards, an array no strategy knows, a value that is no string
SchemaHazards ==
  ObjOf(("hazard" :> ListOf(<<ObjOf(("hazardStatement" :> Named("hazardStatement"))
                                      @@ ("code" :> Named("code")))>>))
          @@ ("items" :> ListOf(<<ObjOf("note" :> Named("note"))>>))
          @@ ("flag" :> Leaf(None)))

\* ingredient fields the extraction may not fill
SchemaIngredients ==
  ObjOf("ingredients" :> ListOf(<<ObjOf(("chemicalName" :> Named("chemicalName"))
                                          @@ ("ecNumber" :> Named("ecNumber"))
                                          @@ ("weightPercent" :> Named("weightPercent"))
                                          @@ ("note" :> Named("note")))>>))

InputSchemas ==
  {Leaf(Dict), SchemaTest, SchemaNames, SchemaTyped, SchemaHazards, SchemaIngredients}

MaxTextLines == 2
MaxRows == 21

RowLine ==
  <<"Sodium", " ", "hypochlorite", " ", "7681", "-", "52", "-", "9", " ",
    "5", " ", "-", " ", "10">>

\* the lines a text is made of
MenuLines ==
  { <<>>,
    <<"Product", " ", "Name", ":", " ", "Bleach">>,
    <<"Product", " ", "Name">>,
    <<"Signal", " ", "word", " ", "Dangerous">>,
    <<"Causes", " ", "severe", " ", "burns">>,
    RowLine,
    <<"Sodium", " ", "hypochlorite">>,
    <<"7681", "-", "52", "-", "9">>,
    <<"#">> }

\* "\n".join(lines), or " ".join(lines)
RECURSIVE Join(_, _)
Join(lines, sep) ==
  IF lines = <<>> THEN <<>>
  ELSE IF Len(lines) = 1 THEN Head(lines)
  ELSE Head(lines) \o <<sep>> \o Join(Tail(lines), sep)

\* n table rows, one per line or all on one long line; n components, each
\* with its registry number on the next line
Rows(n, sep) == Join([k \in 1..n |-> RowLine], sep)
VerticalRows(n) ==
  Join([k \in 1..n |-> <<"Sodium", " ", "hypochlorite", "\n", "7681", "-", "52", "-", "9">>],
       "\n")

\* a composition section, with a component after its end
SectionText ==
  Join(<< <<"3", ".", " ", "Composition">>, <<"3", ".", "1", " ", "Substances">>,
          <<"Component">>, <<"Sodium", " ", "hypochlorite">>,
          <<"231", "-", "668", "-", "3">>, <<"7681", "-", "52", "-", "9">>,
          <<"5", " ", "-", " ", "10", "%">>,
          <<"4", ".", " ", "First", " ", "aid">>, <<"Water">>,
          <<"52", "-", "52", "-", "9">> >>, "\n")

ExplicitTexts ==
  { SectionText,
    <<"Signal", " ", "word", ":", "\n", "WARNING", "\n", "Causes", " ", "aid", "\n",
      "May", " ", "cause", " ", "burns", ",", " ">>,
    <<"PRODUCT", ":", " ", "\n", "Trade", " ", "Name", " ", "Water", "-", "Bleach", "\n",
      "Inhalation", " ", "7681", "-", "52", "-", "9", " ", "5", "%">> }

InputTexts ==
  {Join(ls, "\n") : ls \in UNION {[1..n -> MenuLines] : n \in 0..MaxTextLines}}
    \cup {Rows(n, sep) : n \in 0..MaxRows, sep \in {"\n", " "}}
    \cup {VerticalRows(n) : n \in 0..MaxRows}
    \cup ExplicitTexts

MapIdle ==
  /\ map_schema = Leaf(Dict) /\ map_text = <<>> /\ map_result = <<>>
  /\ map_pc = "idle" /\ map_exc = ""

MapInit ==
  /\ map_schema \in InputSchemas
  /\ map_text \in InputTexts
  /\ map_result = <<>>
  /\ map_pc = "call"
  /\ map_exc = ""

\* an exception raised below, carried up as a value of kind "raise"
RaisedIn(tree) == {tree[q].toks : q \in {x \in DOMAIN tree : tree[x].kind = "raise"}}

MapSchemaToData ==
  /\ map_pc = "call"
  /\ LET result == map_schema_to_data(map_schema, map_text) IN
     IF RaisedIn(result) = {}
     THEN map_result' = result /\ map_pc' = "done" /\ UNCHANGED map_exc
     ELSE /\ map_pc' = "raised"
          /\ map_exc' = (CHOOSE e \in RaisedIn(result) : TRUE)[1]
          /\ UNCHANGED map_result
  /\ UNCHANGED <<map_schema, map_text, notMap>>

MapNext == MapSchemaToData

\* the paths of the schema that map_schema_to_data is called on: the ones
\* reached through dicts only
IsListKey(key) == key # <<>> /\ Head(key) = "["
Mapped(schema) == {p \in DOMAIN schema : \A k \in 1..Len(p) : ~IsListKey(p[k])}

NoWords(text) == \A k \in 1..Len(text) : text[k] \notin WordToks

C8_AtMostTwentyItems ==
  map_pc = "done" =>
    \A q \in DOMAIN map_result : map_result[q].kind = "list" => map_result[q].n <= 20

----------------------------------------------------------------------------
(* Field extraction (src/app/dynamic_extractor.py).  A field name is one   *)
(* word; an alias is a token sequence.                                     *)

\* the words of a camelCase name, split where re.sub(r'([a-z])([A-Z])', ...)
\* puts its separator
CamelParts ==
  ("productName" :> <<"product", "Name">>) @@ ("count" :> <<"count">>)
    @@ ("flag" :> <<"flag">>) @@ ("chemicalName" :> <<"chemical", "Name">>)
    @@ ("casNumber" :> <<"cas", "Number">>)
    @@ ("weightPercent" :> <<"weight", "Percent">>)

cas_variants ==
  << <<"CAS", "-", "No">>, <<"cas", "-", "no">>, <<"CAS", " ", "No">>,
     <<"cas", " ", "no">>, <<"CAS", " ", "Number">>,
     <<"cas", " ", "number">>, <<"CASNO">>, <<"casno">>,
     <<"CAS", "_", "No">>, <<"cas", "_", "no">>, <<"CAS", ".", "No">>,
     <<"cas", ".", "no">> >>

registration_variants ==
  << <<"Registration", " ", "No">>, <<"Reg", " ", "No">>,
     <<"Registry", " ", "Number">>, <<"REACH", " ", "Registration">> >>

name_variants ==
  << <<"Chemical", " ", "Name">>, <<"chemical", " ", "name">>,
     <<"CHEMICAL", " ", "NAME">>, <<"Component">>, <<"component">>,
     <<"COMPONENT">>, <<"Component", " ", "Name">>,
     <<"Substance", " ", "Name">>, <<"substance", " ", "name">>,
     <<"Material", " ", "Name">>, <<"material", " ", "name">> >>

product_variants ==
  << <<"Product", " ", "Name">>, <<"product", " ", "name">>,
     <<"PRODUCT", " ", "NAME">>, <<"Product">>, <<"product">>,
     <<"PRODUCT">>, <<"Trade", " ", "Name">>, <<"trade", " ", "name">>,
     <<"Commercial", " ", "Name">> >>

ec_variants ==
  << <<"EC", "-", "No">>, <<"ec", "-", "no">>, <<"EC", " ", "No">>,
     <<"ec", " ", "no">>, <<"EC", " ", "Number">>, <<"ec", " ", "number">>,
     <<"ECNO">>, <<"ecno">>, <<"EC", "_", "No">>, <<"ec", "_", "no">>,
     <<"European", " ", "Community", " ", "Number">> >>

weight_variants ==
  << <<"Weight", " ", "%">>, <<"weight", " ", "%">>,
     <<"WEIGHT", " ", "%">>, <<"Weight", " ", "Percent">>,
     <<"Wt", " ", "%">>, <<"wt", " ", "%">>, <<"WT", " ", "%">>,
     <<"Concentration">>, <<"concentration">> >>

MapToks(f, s) == [k \in 1..Len(s) |-> IF s[k] \in DOMAIN f THEN f[s[k]] ELSE s[k]]

\* str.replace(a, b) for characters that are tokens
Replace(s, a, b) == [k \in 1..Len(s) |-> IF s[k] = a THEN b ELSE s[k]]

\* re.sub(r'([a-z])([A-Z])', r'\1' + sep + r'\2', field_name)
CamelSub(field_name, sep) ==
  Join([k \in 1..Len(CamelParts[field_name]) |-> <<CamelParts[field_name][k]>>], sep)

\* list(filter(None, variants)) without its repetitions, in order of insertion
RECURSIVE Dedupe(_)
Dedupe(l) ==
  IF l = <<>> THEN <<>>
  ELSE LET rest == Dedupe(SubSeq(l, 1, Len(l) - 1))
           x == l[Len(l)]
       IN IF x = <<>> \/ \E k \in 1..Len(rest) : rest[k] = x THEN rest
          ELSE Append(rest, x)

\* list(set(...)): a set of strings is iterated in the order of its hash
\* table, which follows the hashes of the strings and so the hash seed of
\* the process.  The model draws the order from the rotations of the
\* insertion order (seed \div 2 places) and their reversals (odd seeds).
SetOrder(seed, l) ==
  LET n == Len(l)
      r == (seed \div 2) % n
      rot == [k \in 1..n |-> l[((k - 1 + r) % n) + 1]]
  IN IF n = 0 THEN <<>>
     ELSE IF seed % 2 = 1 THEN [k \in 1..n |-> rot[n + 1 - k]] ELSE rot

FieldLowerHas(field_name, term) == NameContains(<<field_name>>, term)

_generate_field_variants(field_name, seed) ==
  LET name == <<field_name>>
      readable == CamelSub(field_name, " ")
      split == IF readable # name
               THEN <<readable, MapToks(Lower, readable), MapToks(Upper, readable),
                      MapToks(Title, readable)>>
               ELSE <<>>
      formats == <<MapToks(Lower, name), MapToks(Upper, name),
                   Replace(name, "_", " "), Replace(name, "-", " "),
                   Replace(name, "_", "-"), Replace(name, " ", "-"),
                   MapToks(Lower, CamelSub(field_name, "-")),
                   MapToks(Lower, CamelSub(field_name, "_"))>>
      casv == IF FieldLowerHas(field_name, "cas")
              THEN cas_variants \o
                   (IF FieldLowerHas(field_name, "no") \/ FieldLowerHas(field_name, "number")
                    THEN registration_variants ELSE <<>>)
              ELSE <<>>
      namev == IF (FieldLowerHas(field_name, "chemical") \/ FieldLowerHas(field_name, "component"))
                    /\ FieldLowerHas(field_name, "name")
               THEN name_variants ELSE <<>>
      productv == IF FieldLowerHas(field_name, "product") /\ FieldLowerHas(field_name, "name")
                  THEN product_variants ELSE <<>>
      ecv == IF FieldLowerHas(field_name, "ec")
                  /\ (FieldLowerHas(field_name, "no") \/ FieldLowerHas(field_name, "number"))
             THEN ec_variants ELSE <<>>
      weightv == IF FieldLowerHas(field_name, "weight") THEN weight_variants ELSE <<>>
  IN SetOrder(seed, Dedupe(<<name>> \o split \o formats \o casv \o namev \o productv
                             \o ecv \o weightv))

\* Substring tests are made token by token: no word of the texts contains an
\* alias word or a literal of the patterns without being it.  The words of
\* aliases that do are listed in NameFacts.

\* lit in s.lower(), lit a lowercase token sequence
ContainsSeq(s, lit) ==
  \E p \in 1..(Len(s) - Len(lit) + 1) : \A k \in 1..Len(lit) : LowerOf(s[p + k - 1]) = lit[k]

\* term in variant.lower()
VariantHas(variant, term) ==
  \E k \in 1..Len(variant) : LowerOf(variant[k]) = term \/ <<variant[k], term>> \in NameFacts

\* the characters of \w, as tokens
IsWordTok(t) == t \in WordToks \/ t \in AliasToks \/ t \in NumToks \/ t = "_"

\* \b before position p, and after the token at position p
BoundaryBefore(s, p) == p = 1 \/ ~IsWordTok(s[p - 1])
BoundaryAfter(s, p) == p = Len(s) \/ ~IsWordTok(s[p + 1])

\* re.search(r'\b\d{lo,hi}-\d{mid}-\d\b', s).group(), <<>> if there is none
SearchNumTriple(s, lo, hi, mid) ==
  LET p == First({q \in 1..Len(s) : /\ NumTripleAt(s, q, lo, hi, mid)
                                    /\ BoundaryBefore(s, q) /\ BoundaryAfter(s, q + 4)})
  IN IF p = 0 THEN <<>> ELSE SubSeq(s, p, p + 4)

\* re.match(r'^\d+[-\d]*$', s)
IsCodeLine(s) ==
  /\ s # <<>> /\ s[1] \in NumToks
  /\ \A k \in 1..Len(s) : s[k] \in NumToks \/ s[k] = "-"

header_patterns ==
  { <<"component">>, <<"ec", "-", "no">>, <<"cas", "-", "no">>, <<"weight", " ", "%">>,
    <<"weight">>, <<"classification">>, <<"range">>, <<"ec", " ", "no">>,
    <<"cas", " ", "no">>, <<"reach">>, <<"registration">>, <<"number">>,
    <<"reg", ".">>, <<"european", " ", "community">> }

\* str.endswith(lit), lit a lowercase token sequence
EndsWithSeq(s, lit) ==
  Len(s) >= Len(lit) /\ \A k \in 1..Len(lit) : LowerOf(s[Len(s) - Len(lit) + k]) = lit[k]

_is_valid_data_candidate(line, field_variant) ==
  LET line_lower == PyStrip(LowerSeq(line))
      field_lower == LowerSeq(field_variant)
  IN /\ line_lower \notin header_patterns
     /\ ~ContainsSeq(line_lower, <<"classification">>)
     /\ ~ContainsSeq(line, <<"67", "/", "548">>)
     /\ ~ContainsSeq(line, <<"1272", "/", "2008">>)
     /\ ~(line # <<>> /\ Head(line) = "(" /\ line[Len(line)] = ")")
     /\ \A lit \in {<<"no", ".">>, <<"no">>, <<"number">>, <<"%">>, <<"-">>, <<"reg", ".">>,
                    <<"reg">>} : ~EndsWithSeq(line_lower, lit)
     /\ line_lower # field_lower
     /\ CharLen(PyStrip(line)) >= 2
     /\ ~(Len(line_lower) >= 2 /\ line_lower[1] \in NumToks /\ line_lower[2] = ".")
     /\ \E k \in 1..Len(line_lower) : IsWordTok(line_lower[k]) \/ line_lower[k] \in Space
     /\ (VariantHas(field_variant, "chemical") \/ VariantHas(field_variant, "component")
           \/ VariantHas(field_variant, "name"))
          => \E k \in 1..Len(line) : line[k] \in WordToks /\ TokLen[line[k]] >= 3

\* the header test of _extract_from_table_structure for lines[i]
IsHeaderLine(line, variant) ==
  LET line_lower == PyStrip(LowerSeq(line)) IN
  /\ ContainsSeq(line_lower, LowerSeq(variant))
  /\ CharLen(PyStrip(line)) <= CharLen(variant) + 10
  /\ \A k \in 1..Len(line) : line[k] \notin {":", "="}

\* start_search, counting lines from 1
StartSearch(lines, i) ==
  IF i + 1 <= Len(lines)
       /\ \E header \in {<<"ec", "-", "no">>, <<"cas", "-", "no">>, <<"weight">>,
                         <<"classification">>} : ContainsSeq(lines[i + 1], header)
  THEN i + 2 ELSE i + 1

\* what the body of the loop over j returns for lines[j], <<>> if it goes on
TableValue(lines, variant, j) ==
  LET candidate_line == PyStrip(lines[j])
      variant_lower == LowerSeq(variant)
      next == PyStrip(lines[j + 1])
  IN IF candidate_line = <<>> \/ ~_is_valid_data_candidate(candidate_line, variant) THEN <<>>
     ELSE IF variant_lower = <<"cas", "-", "no">> \/ VariantHas(variant, "cas")
     THEN SearchNumTriple(candidate_line, 2, 7, 2)
     ELSE IF \/ variant_lower = <<"ec", "-", "no">>
             \/ /\ VariantHas(variant, "ec")
                /\ VariantHas(variant, "no") \/ VariantHas(variant, "number")
     THEN SearchNumTriple(candidate_line, 3, 3, 3)
     ELSE IF VariantHas(variant, "chemical") \/ VariantHas(variant, "component")
               \/ VariantHas(variant, "name")
     THEN IF /\ ~IsCodeLine(candidate_line)
             /\ CharLen(candidate_line) > 3
             /\ LowerSeq(candidate_line) \notin
                  {<<"component">>, <<"ec", "-", "no">>, <<"cas", "-", "no">>, <<"weight">>}
          THEN IF /\ j + 1 <= Len(lines)
                  /\ next # <<>>
                  /\ \A k \in 1..Len(lines[j + 1]) : lines[j + 1][k] \notin NumToks
                  /\ CharLen(next) > 2
               THEN candidate_line \o <<" ">> \o next
               ELSE candidate_line
          ELSE <<>>
     ELSE IF CharLen(candidate_line) > 1 /\ candidate_line # variant THEN candidate_line
     ELSE <<>>

\* the first line after the header lines[i] that gives a value, 0 if none
TableCandidate(lines, variant, i) ==
  First({j \in StartSearch(lines, i)..Min(i + 14, Len(lines)) :
           TableValue(lines, variant, j) # <<>>})

TableHeader(lines, variant) ==
  First({i \in 1..Len(lines) :
           IsHeaderLine(lines[i], variant) /\ TableCandidate(lines, variant, i) # 0})

\* the string returned, None if there is none
_extract_from_table_structure(field_variants, text) ==
  LET lines == SplitLines(text)
      v == First({k \in 1..Len(field_variants) : TableHeader(lines, field_variants[k]) # 0})
  IN IF v = 0 THEN None
     ELSE LET i == TableHeader(lines, field_variants[v])
          IN Str(TableValue(lines, field_variants[v], TableCandidate(lines, field_variants[v], i)))

\* re.sub(r'^\w+\s*:\s*', '', s)
StripLabel(s) ==
  LET w == RunEnd(s, 1, {t \in {s[k] : k \in 1..Len(s)} : IsWordTok(t)})
      c == RunEnd(s, w, Space)
  IN IF w > 1 /\ c <= Len(s) /\ s[c] = ":"
     THEN SubSeq(s, RunEnd(s, c + 1, Space), Len(s))
     ELSE s

\* the three noise_patterns, in turn
StripArticle(s) ==
  IF Len(s) >= 2 /\ LowerOf(s[1]) \in {"of", "the", "a", "an"} /\ s[2] \in Space
  THEN SubSeq(s, RunEnd(s, 2, Space), Len(s)) ELSE s

StripDocWord(s) ==
  LET n == Len(s) IN
  IF n >= 2 /\ s[n - 1] \in Space
       /\ LowerOf(s[n]) \in {"sheet", "data", "information", "document",
                             "sheets", "datas", "informations", "documents"}
  THEN LET k == CHOOSE j \in 0..(n - 1) :
                  /\ \A x \in (j + 1)..(n - 1) : s[x] \in Space
                  /\ j = 0 \/ s[j] \notin Space
       IN SubSeq(s, 1, k)
  ELSE s

StripNumberWord(s) ==
  LET d == IF Len(s) >= 2 /\ LowerOf(s[1]) = "no" /\ s[2] = "." THEN 3 ELSE 2 IN
  IF /\ s # <<>> /\ LowerOf(s[1]) \in {"number", "no", "code"}
     /\ d = 3 => LowerOf(s[1]) = "no"
     /\ Len(s) >= d /\ s[d] \in Space
  THEN SubSeq(s, RunEnd(s, d, Space), Len(s)) ELSE s

_clean_extracted_value(value) ==
  LET sep == {":", "-", "=", " ", "\n"}
      lead == SubSeq(value, RunEnd(value, 1, sep), Len(value))
      last == First({k \in 0..Len(lead) : \A x \in (k + 1)..Len(lead) : lead[x] \in sep})
      trail == SubSeq(lead, 1, last)
  IN PyStrip(StripNumberWord(StripDocWord(StripArticle(CollapseSpace(StripLabel(trail))))))

\* re.escape(variant) at position i, case ignored
VariantAt(text, i, variant) ==
  /\ i + Len(variant) - 1 <= Len(text)
  /\ \A k \in 1..Len(variant) : LowerOf(text[i + k - 1]) = LowerOf(variant[k])

\* ^ and $ under re.MULTILINE
LineStart(text, i) == i = 1 \/ text[i - 1] = "\n"

\* the first position at or after g whose token is in stop, Len(text) + 1 if none
StopAt(text, g, stop) ==
  LET e == First({j \in g..Len(text) : text[j] \in stop})
  IN IF e = 0 THEN Len(text) + 1 ELSE e

\* class*(group) from position a, the group beginning with a character not in
\* stop: the start of the group, 0 if there is none.  The run is greedy, at
\* least least long, and gives characters back until the group can begin.
GroupAfterRun(text, a, class, stop, least) ==
  LET c == RunEnd(text, a, class)
      back == {g \in (a + least)..(c - 1) : text[g] \notin stop}
  IN IF c <= Len(text) /\ text[c] \notin stop /\ c - a >= least THEN c
     ELSE IF back = {} THEN 0
     ELSE CHOOSE g \in back : \A g2 \in back : g2 <= g

NoMatch == [s |-> 0, g |-> 0, e |-> 0]

\* the six patterns of _extract_with_optimized_patterns matched at position
\* i: where the match starts, where group 1 starts, where both end
PatternMatch(text, variant, p, i) ==
  LET a == i + Len(variant)
      b == RunEnd(text, a, Space)
      found(g, stop) == IF g = 0 THEN NoMatch ELSE [s |-> i, g |-> g, e |-> StopAt(text, g, stop)]
  IN IF ~VariantAt(text, i, variant) THEN NoMatch
     ELSE CASE p = 1 ->
                 IF BoundaryBefore(text, i) /\ b <= Len(text) /\ text[b] \in {":", "="}
                 THEN found(GroupAfterRun(text, b + 1, Space, {"\n"}, 0), {"\n"})
                 ELSE NoMatch
            [] p = 2 ->
                 IF LineStart(text, i) /\ b <= Len(text) /\ text[b] \in {":", "="}
                 THEN found(GroupAfterRun(text, b + 1, Space, {"\n"}, 0), {"\n"})
                 ELSE NoMatch
            [] p = 3 ->
                 IF BoundaryBefore(text, i)
                 THEN found(GroupAfterRun(text, a, Space, {"\n"}, 1), {"\n"})
                 ELSE NoMatch
            [] p = 4 ->
                 IF b <= Len(text) /\ text[b] = "|"
                 THEN found(GroupAfterRun(text, b + 1, Space, {"\n", "|"}, 0), {"\n", "|"})
                 ELSE NoMatch
            [] p = 5 ->
                 LET g == GroupAfterRun(text, a, Space, {"\n"}, 0) IN
                 IF LineStart(text, i) /\ g # 0 /\ \E q \in a..(g - 1) : text[q] = "\n"
                 THEN found(g, {"\n"})
                 ELSE NoMatch
            [] p = 6 ->
                 found(GroupAfterRun(text, a, {":", "-", " ", "\n"}, {"\n", ".", ";", ","}, 0),
                       {"\n", ".", ";", ","})

\* re.finditer: the matches from position pos on, none overlapping another
RECURSIVE FindIter(_, _, _, _)
FindIter(text, variant, p, pos) ==
  LET i == First({j \in pos..Len(text) : PatternMatch(text, variant, p, j) # NoMatch})
  IN IF i = 0 THEN <<>>
     ELSE LET m == PatternMatch(text, variant, p, i)
          IN <<m>> \o FindIter(text, variant, p, m.e)

\* the number of characters before position k
Offset(text, k) == CharLen(SubSeq(text, 1, k - 1))

header_indicators ==
  { <<"component">>, <<"ec", "-", "no">>, <<"cas", "-", "no">>, <<"weight">>,
    <<"classification">>, <<"range">>, <<"number">>, <<"no">>, <<"ec">>, <<"cas">> }

chemical_words ==
  { "sodium", "hydrogen", "carbonate", "acid", "oxide", "chloride", "sulfate",
    "phosphate", "calcium", "potassium", "magnesium", "aluminum", "iron", "copper",
    "zinc", "nitrogen", "phosphorus", "sulfur", "fluoride", "bromide", "iodide",
    "nitrate", "acetate" }

\* re.search(r'\d{lo,7}-\d{mid}-\d', s): the first run of digits may begin
\* inside a number, the last may end inside one
HasNumTriple(s, lo, mid) ==
  \E q \in 1..(Len(s) - 4) :
    /\ s[q] \in NumToks /\ TokLen[s[q]] >= lo
    /\ s[q + 1] = "-" /\ IsNum(s[q + 2], mid, mid) /\ s[q + 3] = "-" /\ s[q + 4] \in NumToks

\* the words of the context text[start:end] that are whole in it
ContextHas(text, start, end, words) ==
  \E k \in 1..Len(text) :
    /\ LowerOf(text[k]) \in words
    /\ BoundaryBefore(text, k) /\ BoundaryAfter(text, k)
    /\ Offset(text, k) >= start /\ Offset(text, k + 1) <= end

\* the score of a match, in hundredths
_score_extraction_context(m, text, field_name) ==
  LET ms == Offset(text, m.s)
      me == Offset(text, m.e)
      start == IF ms - 100 > 0 THEN ms - 100 ELSE 0
      end == Min(CharLen(text), me + 100)
      extracted_value == PyStrip(SubSeq(text, m.g, m.e - 1))
      len == CharLen(extracted_value)
      colon == \E k \in 1..Len(text) :
                 /\ text[k] = ":"
                 /\ Offset(text, k) >= start /\ Offset(text, k) < Min(ms + 10, end)
      base == 50 + (IF colon THEN 20 ELSE 0)
                 + (IF ContextHas(text, start, end,
                                  {"value", "amount", "quantity", "weight", "percentage"})
                    THEN 20 ELSE 0)
                 + (IF len > 3 THEN 10 ELSE 0)
      allDigits == \A k \in 1..Len(extracted_value) : extracted_value[k] \in NumToks
      byField ==
        IF VariantHas(field_name, "cas")
        THEN IF HasNumTriple(extracted_value, 2, 2) THEN 40
             ELSE IF allDigits THEN 10 ELSE 0
        ELSE IF VariantHas(field_name, "ec")
                  /\ (VariantHas(field_name, "no") \/ VariantHas(field_name, "number"))
        THEN IF HasNumTriple(extracted_value, 3, 3) THEN 40
             ELSE IF allDigits THEN 10 ELSE 0
        ELSE IF VariantHas(field_name, "chemical") \/ VariantHas(field_name, "name")
        THEN (IF ~IsCodeLine(extracted_value) THEN 30 ELSE 0)
               + (IF \E k \in 1..Len(extracted_value) :
                       LowerOf(extracted_value[k]) \in chemical_words THEN 50 ELSE 0)
               + (IF len > 15 THEN 60 ELSE IF len > 10 THEN 40 ELSE IF len > 6 THEN 20 ELSE 0)
               - (IF len <= 5 THEN 30 ELSE 0)
        ELSE 0
      penalty == (IF ContextHas(text, start, end, {"title", "header", "caption", "label"})
                  THEN 30 ELSE 0)
                   + (IF extracted_value # <<>> /\ extracted_value[Len(extracted_value)] = ":"
                      THEN 40 ELSE 0)
                   + (IF len <= 2 THEN 30 ELSE 0)
      score == base + byField - penalty
  IN IF LowerSeq(extracted_value) = LowerSeq(field_name) THEN 10
     ELSE IF LowerSeq(extracted_value) \in header_indicators THEN 5
     ELSE IF len <= 5 /\ \E k \in 1..Len(extracted_value) : extracted_value[k] \in {"-", "."}
     THEN 10
     ELSE IF score < 0 THEN 0 ELSE IF score > 100 THEN 100 ELSE score

\* the first element of seq that is not empty, <<>> if none
FirstNonEmpty(seq) ==
  LET k == First({j \in 1..Len(seq) : seq[j] # <<>>})
  IN IF k = 0 THEN <<>> ELSE seq[k]

\* lines 163-170: a cleaned value is accepted when it is longer than one
\* character and its score is above 0.5
AcceptedValue(value, score) ==
  IF value # <<>> /\ CharLen(value) > 1 /\ score > 50 THEN value ELSE <<>>

\* what each of the matches ms gives
MatchValues(ms, text, variant) ==
  [j \in 1..Len(ms) |->
     AcceptedValue(_clean_extracted_value(SubSeq(text, ms[j].g, ms[j].e - 1)),
                   _score_extraction_context(ms[j], text, variant))]

\* the value of the first match of pattern p that is accepted, <<>> if none
PatternValue(text, variant, p) ==
  FirstNonEmpty(MatchValues(FindIter(text, variant, p, 1), text, variant))

VariantValue(text, variant) ==
  FirstNonEmpty([p \in 1..6 |-> PatternValue(text, variant, p)])

StrOrNone(toks) == IF toks = <<>> THEN None ELSE Str(toks)

\* the patterns of _extract_with_optimized_patterns, after its table step
ContextPatterns(field_variants, text) ==
  StrOrNone(FirstNonEmpty([k \in 1..Len(field_variants) |->
                             VariantValue(text, field_variants[k])]))

_extract_with_optimized_patterns(field_variants, text) ==
  LET table_value == _extract_from_table_structure(field_variants, text)
  IN IF table_value # None THEN table_value ELSE ContextPatterns(field_variants, text)

\* SequenceMatcher(None, a, b): the pairs of lowercase strings, among the
\* aliases and the lines and labels of the texts, whose ratio() is above 0.6,
\* with the number of characters matched
MatchingFacts ==
  { <<<<"productname">>, <<"product", " ", "name", ":", " ", "bleach">>, 11>>,
    <<<<"productname">>, <<"product", " ", "name">>, 11>>,
    <<<<"productname">>, <<"produkt", " ", "name", ":", " ", "bleach">>, 10>>,
    <<<<"productname">>, <<"produkt", " ", "name">>, 10>>,
    <<<<"product", " ", "name">>, <<"product", " ", "name", ":", " ", "bleach">>, 12>>,
    <<<<"product", " ", "name">>, <<"product", " ", "name">>, 12>>,
    <<<<"product", " ", "name">>, <<"trade", " ", "name">>, 7>>,
    <<<<"product", " ", "name">>, <<"produkt", " ", "name", ":", " ", "bleach">>, 11>>,
    <<<<"product", " ", "name">>, <<"produkt", " ", "name">>, 11>>,
    <<<<"product", "-", "name">>, <<"product", " ", "name", ":", " ", "bleach">>, 11>>,
    <<<<"product", "-", "name">>, <<"product", " ", "name">>, 11>>,
    <<<<"product", "-", "name">>, <<"produkt", " ", "name", ":", " ", "bleach">>, 10>>,
    <<<<"product", "-", "name">>, <<"produkt", " ", "name">>, 10>>,
    <<<<"product", "_", "name">>, <<"product", " ", "name", ":", " ", "bleach">>, 11>>,
    <<<<"product", "_", "name">>, <<"product", " ", "name">>, 11>>,
    <<<<"product", "_", "name">>, <<"produkt", " ", "name", ":", " ", "bleach">>, 10>>,
    <<<<"product", "_", "name">>, <<"produkt", " ", "name">>, 10>>,
    <<<<"product">>, <<"product", " ", "name">>, 7>>,
    <<<<"product">>, <<"produkt", " ", "name">>, 6>>,
    <<<<"trade", " ", "name">>, <<"trade", " ", "name", ":", " ", "water">>, 10>>,
    <<<<"trade", " ", "name">>, <<"trade", " ", "name">>, 10>>,
    <<<<"count">>, <<"count">>, 5>>,
    <<<<"count">>, <<"count", ":", " ", "5">>, 5>>,
    <<<<"count">>, <<"count", "|", "10">>, 5>>,
    <<<<"count">>, <<"kount">>, 4>>,
    <<<<"flag">>, <<"flag">>, 4>> }

\* the number of characters matched by SequenceMatcher(None, a.lower(), b.lower())
\* if the ratio is above 0.6, else 0
Matching(a, b) ==
  LET hit == {f \in MatchingFacts : f[1] = LowerSeq(a) /\ f[2] = LowerSeq(b)}
  IN IF hit = {} THEN 0 ELSE (CHOOSE f \in hit : TRUE)[3]

\* ratio() = 2 * matched / (len(a) + len(b)), as the fraction <<num, den>>
Ratio(a, b) == <<2 * Matching(a, b), CharLen(a) + CharLen(b)>>
RatioAbove(r, num, den) == r[1] * den > num * r[2]

\* line.split(sep, 1)
SplitOnce(line, sep) ==
  LET p == First({k \in 1..Len(line) : line[k] = sep})
  IN <<SubSeq(line, 1, p - 1), SubSeq(line, p + 1, Len(line))>>

\* what the body of the loop over separators returns for sep, FALSE if it goes on
FuzzyLineHit(line, field_name, sep) ==
  /\ \E k \in 1..Len(line) : line[k] = sep
  /\ LET parts == SplitOnce(line, sep)
     IN /\ RatioAbove(Ratio(field_name, PyStrip(parts[1])), 6, 10)
        /\ PyStrip(parts[2]) # <<>>

\* the string returned, <<>> for None and for the empty string
_extract_value_from_fuzzy_line(line, field_name) ==
  LET separators == <<":", "=", "-", "|", "\t">>
      s == First({k \in 1..Len(separators) : FuzzyLineHit(line, field_name, separators[k])})
  IN IF s = 0 THEN <<>>
     ELSE _clean_extracted_value(PyStrip(SplitOnce(line, separators[s])[2]))

\* The loop keeps the value of a pair (line, variant) when its similarity is
\* above 0.6 and above the best so far and the line gives a value: it ends
\* with the first pair, in the order of the loops, of the greatest similarity
\* among the pairs that give a value.
_extract_with_fuzzy_matching(field_variants, text) ==
  LET lines == SplitLines(text)
      nv == Len(field_variants)
      line_cleaned(c) == PyStrip(lines[((c - 1) \div nv) + 1])
      variant(c) == field_variants[((c - 1) % nv) + 1]
      similarity(c) == Ratio(variant(c), line_cleaned(c))
      gives == {c \in 1..(Len(lines) * nv) :
                  /\ CharLen(line_cleaned(c)) >= 3
                  /\ RatioAbove(similarity(c), 6, 10)
                  /\ _extract_value_from_fuzzy_line(line_cleaned(c), variant(c)) # <<>>}
      best == {c \in gives : \A c2 \in gives :
                 ~RatioAbove(similarity(c2), similarity(c)[1], similarity(c)[2])}
  IN IF gives = {} THEN None
     ELSE LET c == First(best)
          IN Str(_extract_value_from_fuzzy_line(line_cleaned(c), variant(c)))

\* int(token)
NumVal ==
  ("7681" :> 7681) @@ ("52" :> 52) @@ ("9" :> 9) @@ ("5" :> 5) @@
  ("10" :> 10) @@ ("3" :> 3) @@ ("1" :> 1) @@ ("4" :> 4) @@ ("2" :> 2) @@
  ("231" :> 231) @@ ("668" :> 668) @@ ("234" :> 234)

PyFloat(m, e) == [kind |-> "float", toks |-> <<ToString(e)>>, n |-> m]
Raise(exc) == [kind |-> "raise", toks |-> <<exc>>, n |-> 0]

RECURSIVE Pow10(_)
Pow10(k) == IF k = 0 THEN 1 ELSE 10 * Pow10(k - 1)

\* int() of the digits of a sequence of numbers, and how many digits there are
RECURSIVE DigitsVal(_)
DigitsVal(s) ==
  IF s = <<>> THEN 0
  ELSE DigitsVal(SubSeq(s, 1, Len(s) - 1)) * Pow10(TokLen[s[Len(s)]]) + NumVal[s[Len(s)]]
DigitsLen(s) == CharLen(s)

\* m / 10^e with no zero at the end of its decimals
RECURSIVE Normal(_, _)
Normal(m, e) == IF e > 0 /\ m % 10 = 0 THEN Normal(m \div 10, e - 1) ELSE PyFloat(m, e)

\* float(number_str): the float, or the ValueError raised.  number_str holds
\* numbers and at most one "." once the dots before the last are gone.
Float(number_str) ==
  LET dots == {k \in 1..Len(number_str) : number_str[k] = "."}
      ok == /\ \A k \in 1..Len(number_str) : number_str[k] \in NumToks \/ number_str[k] = "."
            /\ \E k \in 1..Len(number_str) : number_str[k] \in NumToks
            /\ Cardinality(dots) <= 1
      d == IF dots = {} THEN Len(number_str) + 1 ELSE CHOOSE k \in dots : TRUE
      int == SubSeq(number_str, 1, d - 1)
      frac == SubSeq(number_str, d + 1, Len(number_str))
  IN IF ~ok THEN Raise("ValueError")
     ELSE Normal(DigitsVal(int) * Pow10(DigitsLen(frac)) + DigitsVal(frac), DigitsLen(frac))

\* the branch of _convert_to_type for numbers without its try: what the
\* conversion of number_match.group() gives
ConvertNumber(group) ==
  LET spaced == SelectSeq(group, LAMBDA t : t # " ")
      number_str == Replace(spaced, ",", ".")
      dots == {k \in 1..Len(number_str) : number_str[k] = "."}
      lastdot == CHOOSE k \in dots : \A k2 \in dots : k2 <= k
      joined == IF Cardinality(dots) > 1
                THEN SelectSeq(SubSeq(number_str, 1, lastdot - 1), LAMBDA t : t # ".")
                       \o SubSeq(number_str, lastdot, Len(number_str))
                ELSE number_str
  IN Float(joined)

\* lines 509-536 without the try of lines 521-529: the ValueError of float()
\* leaves the function
_convert_to_type_without_except(value, field_type) ==
  LET stripped == PyStrip(value)
      class == NumToks \cup {",", ".", " ", "\n"}
      p == First({k \in 1..Len(stripped) : stripped[k] \in class})
  IN IF stripped = <<>> THEN None
     ELSE IF field_type = "number"
     THEN IF p # 0 THEN ConvertNumber(SubSeq(stripped, p, RunEnd(stripped, p, class) - 1))
          ELSE PyInt(0)
     ELSE IF field_type = "boolean"
     THEN PyBool(LowerSeq(stripped) \in {<<"true">>, <<"yes">>, <<"1">>, <<"on">>,
                                         <<"enabled">>, <<"active">>})
     ELSE Str(stripped)

_convert_to_type(value, field_type) ==
  LET stripped == PyStrip(value)
      class == NumToks \cup {",", ".", " ", "\n"}
      p == First({k \in 1..Len(stripped) : stripped[k] \in class})
      converted == ConvertNumber(SubSeq(stripped, p, RunEnd(stripped, p, class) - 1))
  IN IF stripped = <<>> THEN None
     ELSE IF field_type = "number"
     THEN IF p # 0 /\ converted.kind # "raise" THEN converted ELSE PyInt(0)
     ELSE IF field_type = "boolean"
     THEN PyBool(LowerSeq(stripped) \in {<<"true">>, <<"yes">>, <<"1">>, <<"on">>,
                                         <<"enabled">>, <<"active">>})
     ELSE Str(stripped)

_max_cache_size == 10

MaxSeed == 1
MaxCalls == 2

ExFields == { <<"productName", "string">>, <<"count", "number">>, <<"flag", "boolean">> }

\* the lines a text of the extraction is made of
ExMenuLines ==
  { <<>>,
    <<"Product", " ", "Name", ":", " ", "Bleach">>,
    <<"Trade", " ", "Name", ":", " ", "Water">>,
    <<"Product", " ", "Name">>,
    <<"Sodium", " ", "hypochlorite">>,
    <<"count", ":", " ", "5", " ", "-", " ", "10">>,
    <<"count", ":", " ", "Sodium", ",", " ", "Water">>,
    <<"Produkt", " ", "Name", ":", " ", "Bleach">>,
    <<"flag", " ", "=", " ", "yes">>,
    <<"count", "|", "10">>,
    <<"Kount", ":", " ", "1", ".", "234", ",", "5">> }

\* test_malformed_pdf_text: only newlines, one very long line, excessive
\* white space, characters that are no text
MalformedTexts ==
  { <<"\n", "\n", "\n">>,
    <<"A*10000">>,
    <<"Product", " ", "Name", " ", "\n", "\n", "\n", " ", "Signal", " ", "word", " ",
      "\n", "\n", "\n">>,
    <<"#", "#", "#">> }

\* a long document, and one that begins with it
LongTexts == { <<"A*10000">>, <<"A*10000", "\n", "count", ":", " ", "5", " ", "-", " ", "10">> }

ExTexts ==
  {Join(ls, "\n") : ls \in UNION {[1..n -> ExMenuLines] : n \in 0..2}} \cup MalformedTexts \cup LongTexts

\* the schema of test_malformed_pdf_text
SchemaMalformed ==
  ObjOf(("productName" :> Named("productName")) @@ ("signalWord" :> Named("signalWord")))

\* hash(text[:1000]): the key of a text in _doc_cache; a text cut short is
\* marked
TextKey(text) ==
  IF CharLen(text) <= 1000 THEN text
  ELSE LET k == First({j \in 0..(Len(text) - 1) : CharLen(SubSeq(text, 1, j + 1)) > 1000})
       IN SubSeq(text, 1, k) \o <<"[:1000]">>

\* lines 188-190: the doc is nlp(_find_relevant_text_sections(field_variants[0],
\* text, max_chars)); it is known by what it is made from
DocOf(field_variants, text, field_type) ==
  [variant |-> field_variants[1], text |-> text,
   max_chars |-> IF field_type = "number" THEN 30000 ELSE 20000]
NoDoc == [variant |-> <<>>, text |-> <<>>, max_chars |-> 0]

\* the entries of k documents processed earlier by the same process
OtherDocs(k) ==
  [j \in 1..k |-> [key |-> <<"document", ToString(j)>>,
                   doc |-> DocOf(<<<<"productName">>>>, <<"document", ToString(j)>>, "string")]]

\* text_hash in _doc_cache, and _doc_cache[text_hash]
InCache(cache, key) == \E k \in 1..Len(cache) : cache[k].key = key
CachedDoc(cache, key) == cache[CHOOSE k \in 1..Len(cache) : cache[k].key = key].doc

ExIdle ==
  /\ ex_field_name = "" /\ ex_field_type = "" /\ ex_text = <<>>
  /\ hash_seed = 0 /\ nlp = FALSE /\ _doc_cache = <<>> /\ ex_doc = NoDoc
  /\ ex_variants = <<>> /\ ex_value = None /\ ex_result = None
  /\ ex_ran = <<>> /\ ex_pc = "idle" /\ ex_run = 0 /\ ex_first = None

\* a process has imported the module (lines 9-20) and, where spaCy is loaded,
\* filled its cache with other documents; it calls extract_field_value
ExInit ==
  /\ \E f \in ExFields : ex_field_name = f[1] /\ ex_field_type = f[2]
  /\ ex_text \in ExTexts
  /\ hash_seed \in 0..MaxSeed
  /\ nlp \in BOOLEAN
  /\ _doc_cache = (IF nlp THEN OtherDocs(_max_cache_size) ELSE <<>>)
  /\ ex_doc = NoDoc
  /\ ex_variants = <<>> /\ ex_value = None /\ ex_result = None
  /\ ex_ran = <<>> /\ ex_pc = "variants" /\ ex_run = 1 /\ ex_first = None

\* line 36
GenerateFieldVariants ==
  /\ ex_pc = "variants"
  /\ ex_variants' = _generate_field_variants(ex_field_name, hash_seed)
  /\ ex_pc' = "table"
  /\ UNCHANGED <<ex_field_name, ex_field_type, ex_text, hash_seed, nlp, _doc_cache,
                 ex_doc, ex_value, ex_result, ex_ran, ex_run, ex_first, notEx>>

\* lines 39-54 with the strategy's value left out of account: the next
\* strategy is tried whatever the value
Ran_without_return(strategy, value, miss) ==
  /\ ex_ran' = Append(ex_ran, [strategy |-> strategy, value |-> value])
  /\ ex_value' = value
  /\ IF miss = "return"
     THEN ex_pc' = (IF value # None THEN "convert" ELSE "done")
     ELSE ex_pc' = miss
  /\ IF value = None /\ miss = "return" THEN ex_result' = None ELSE UNCHANGED ex_result
  /\ UNCHANGED <<ex_field_name, ex_field_type, ex_text, hash_seed, nlp, ex_variants,
                 ex_run, ex_first, notEx>>

\* lines 39-54: a strategy has produced value.  A value that is true goes to
\* _convert_to_type and is returned; after a miss comes the strategy miss,
\* or the return of None
Ran(strategy, value, miss) ==
  /\ ex_ran' = Append(ex_ran, [strategy |-> strategy, value |-> value])
  /\ ex_value' = value
  /\ IF value # None THEN ex_pc' = "convert"
     ELSE IF miss = "return" THEN ex_pc' = "done" ELSE ex_pc' = miss
  /\ IF value = None /\ miss = "return" THEN ex_result' = None ELSE UNCHANGED ex_result
  /\ UNCHANGED <<ex_field_name, ex_field_type, ex_text, hash_seed, nlp, ex_variants,
                 ex_run, ex_first, notEx>>

\* lines 144-146: the table step of _extract_with_optimized_patterns
ExtractFromTableStructure ==
  /\ ex_pc = "table"
  /\ Ran("table", _extract_from_table_structure(ex_variants, ex_text), "patterns")
  /\ UNCHANGED <<_doc_cache, ex_doc>>

\* lines 148-174 and 39-44: the patterns of _extract_with_optimized_patterns
ExtractWithPatterns ==
  /\ ex_pc = "patterns"
  /\ Ran("patterns", ContextPatterns(ex_variants, ex_text), IF nlp THEN "nlp" ELSE "fuzzy")
  /\ UNCHANGED <<_doc_cache, ex_doc>>

\* what _extract_with_enhanced_nlp may return: what the spaCy model finds is
\* no part of the program, it is None or a piece of the text the doc was
\* made from, here a line
NlpValues(text) ==
  {None} \cup {Str(PyStrip(l)) : l \in {x \in {SplitLines(text)[k] : k \in 1..Len(SplitLines(text))} :
                                         CharLen(PyStrip(x)) > 1}}

\* lines 182-196: the doc of the text, from the cache or made and put into
\* it, and the cache afterwards
LookUp(cache, key, made) ==
  IF InCache(cache, key) THEN [doc |-> CachedDoc(cache, key), cache |-> cache]
  ELSE [doc |-> made,
        cache |-> Append(IF Len(cache) >= _max_cache_size THEN <<>> ELSE cache,
                         [key |-> key, doc |-> made])]

\* lines 45-47 and 177-238
ExtractWithEnhancedNlp ==
  /\ ex_pc = "nlp"
  /\ ex_doc' = LookUp(_doc_cache, TextKey(ex_text),
                      DocOf(ex_variants, ex_text, ex_field_type)).doc
  /\ _doc_cache' = LookUp(_doc_cache, TextKey(ex_text),
                          DocOf(ex_variants, ex_text, ex_field_type)).cache
  /\ \E nlp_value \in NlpValues(ex_doc'.text) : Ran("nlp", nlp_value, "fuzzy")

\* lines 50-54
ExtractWithFuzzyMatching ==
  /\ ex_pc = "fuzzy"
  /\ Ran("fuzzy", _extract_with_fuzzy_matching(ex_variants, ex_text), "return")
  /\ UNCHANGED <<_doc_cache, ex_doc>>

\* lines 41, 47, 52: return _convert_to_type(value, field_type)
ConvertToType ==
  /\ ex_pc = "convert"
  /\ ex_result' = _convert_to_type(ex_value.toks, ex_field_type)
  /\ ex_pc' = IF ex_result'.kind = "raise" THEN "raised" ELSE "done"
  /\ UNCHANGED <<ex_field_name, ex_field_type, ex_text, hash_seed, nlp, _doc_cache,
                 ex_doc, ex_variants, ex_value, ex_ran, ex_run, ex_first, notEx>>

\* the caller calls again
Again ==
  /\ ex_pc = "done" /\ ex_run < MaxCalls
  /\ ex_run' = ex_run + 1
  /\ ex_first' = IF ex_run = 1 THEN ex_result ELSE ex_first
  /\ ex_variants' = <<>> /\ ex_value' = None /\ ex_result' = None
  /\ ex_ran' = <<>> /\ ex_pc' = "variants" /\ ex_doc' = NoDoc
  /\ UNCHANGED <<nlp, notEx>>

\* ... with the same arguments
SameArguments == UNCHANGED <<ex_field_name, ex_field_type, ex_text>>

\* ... in the same process
CallAgain == Again /\ SameArguments /\ UNCHANGED <<hash_seed, _doc_cache>>

\* ... in a new run of the program: a new hash seed, an empty cache
NewRun == Again /\ SameArguments /\ hash_seed' \in 0..MaxSeed /\ _doc_cache' = <<>>

\* the texts whose first 1000 characters are those of text
SameStart(text) == {t \in ExTexts : TextKey(t) = TextKey(text)}

\* the field that follows in the schema of the fields
NextField == ("productName" :> "count") @@ ("count" :> "flag") @@ ("flag" :> "productName")

\* the process, its spaCy model loaded, goes on to the next field of the
\* document (map_schema_to_data, src/app/mappers.py, calls
\* extract_field_value for field after field of a schema), or to the same
\* field of a document that begins as this one does
CallOther ==
  /\ nlp
  /\ Again
  /\ \E f \in ExFields, t \in SameStart(ex_text) :
       /\ \/ f[1] = NextField[ex_field_name] /\ t = ex_text
          \/ f[1] = ex_field_name /\ t # ex_text
       /\ ex_field_name' = f[1] /\ ex_field_type' = f[2] /\ ex_text' = t
  /\ UNCHANGED <<hash_seed, _doc_cache>>

\* the schema of the test is mapped over the same text once the calls are made
MapSameText ==
  /\ ex_pc = "done" /\ ex_run = MaxCalls
  /\ MapSchemaToData

ExNext ==
  \/ GenerateFieldVariants
  \/ ExtractFromTableStructure
  \/ ExtractWithPatterns
  \/ ExtractWithEnhancedNlp
  \/ ExtractWithFuzzyMatching
  \/ ConvertToType
  \/ CallAgain
  \/ NewRun
  \/ MapSameText

\* the calls of a process that goes from field to field and from document
\* to document
CacheNext == ExNext \/ CallOther

\* the strategies of the cascade in the order of the code (lines 38-54 and
\* 144-148); the third only when the spaCy model is loaded
Strategies ==
  IF nlp THEN <<"table", "patterns", "nlp", "fuzzy">> ELSE <<"table", "patterns", "fuzzy">>

StrategiesRun == [k \in 1..Len(ex_ran) |-> ex_ran[k].strategy]

\* what a strategy of the program produces for the call
StrategyValue(strategy) ==
  CASE strategy = "table" -> _extract_from_table_structure(ex_variants, ex_text)
    [] strategy = "patterns" -> ContextPatterns(ex_variants, ex_text)
    [] strategy = "fuzzy" -> _extract_with_fuzzy_matching(ex_variants, ex_text)

\* C3 as stated: a call with the same field and the same text returns what
\* the first call returned, in the same process or in a new run of the
\* program, whatever the order of the aliases (here with spaCy not loaded, so
\* that nothing but the program decides the result).
C3_SameOutputEveryRun ==
  (~nlp /\ ex_pc = "done" /\ ex_run > 1) => ex_result = ex_first

\* C6 as stated: the strategies run in the order context patterns, table
\* structure, fuzzy lines, substring fallback.
C6_OrderAsStated ==
  IsPrefix(StrategiesRun, <<"patterns", "table", "fuzzy", "substring">>)

\* C6 amended: the strategies run in the order table structure, context
\* patterns, NLP when the spaCy model is loaded, fuzzy lines; a strategy runs
\* only after every earlier one produced no value; what is returned is the
\* value of the first strategy that produced one, converted to the type of
\* the field, and None when all of them have run without a value.  (The
\* value of the strategy that ran last is compared with what the strategy
\* computes; the earlier ones were compared when they were last.)
C6_CascadeOrder ==
  /\ IsPrefix(StrategiesRun, Strategies)
  /\ \A k \in 1..(Len(ex_ran) - 1) : ex_ran[k].value = None
  /\ (ex_ran # <<>> /\ ex_ran[Len(ex_ran)].strategy # "nlp") =>
       ex_ran[Len(ex_ran)].value = StrategyValue(ex_ran[Len(ex_ran)].strategy)
  /\ ex_pc = "done" =>
       /\ ex_ran # <<>>
       /\ LET last == ex_ran[Len(ex_ran)].value IN
          IF last = None
          THEN ex_result = None /\ StrategiesRun = Strategies
          ELSE ex_result = _convert_to_type(last.toks, ex_field_type)

\* table structure and context patterns have found nothing, the fuzzy lines
\* have: "Produkt Name: Bleach" gives Bleach for productName
C6_Witness ==
  /\ ex_pc = "done" /\ ~nlp
  /\ ex_field_name = "productName"
  /\ StrategiesRun = <<"table", "patterns", "fuzzy">>
  /\ ex_ran[3].value # None
  /\ ex_result = Str(<<"Bleach">>)

\* C7: a call of extract_field_value never raises; when no strategy has a
\* value it returns None; and map_schema_to_data over the same text returns a
\* dict with the keys of the schema.
C7_MissIsNoneNotRaise ==
  /\ ex_pc # "raised"
  /\ map_pc # "raised"
  /\ (ex_pc = "done" /\ \A s \in {"table", "patterns", "fuzzy"} : StrategyValue(s) = None
        /\ \A k \in 1..Len(ex_ran) : ex_ran[k].value = None)
       => ex_result = None
  /\ map_pc = "done" =>
       /\ map_result[<<>>] = Dict
       /\ Keys(map_result) = {<<"productName">>, <<"signalWord">>}

\* the text of 10000 times A: no strategy has a value for productName, None
\* is returned, and the mapper has its dict
C7_Witness ==
  /\ ex_pc = "done" /\ map_pc = "done"
  /\ ex_text = <<"A*10000">>
  /\ ex_field_name = "productName"
  /\ StrategiesRun = Strategies
  /\ ex_result = None
  /\ map_result[<<>>] = Dict

\* C16: the result of an extraction does not depend on what the cache holds:
\* the doc the NLP step works on, taken from the cache or not, is the doc
\* that a miss makes for the field, the field type and the text of the call;
\* an entry made for another field, type or text is never used.
C16_CacheIndependent ==
  ex_doc # NoDoc => ex_doc = DocOf(ex_variants, ex_text, ex_field_type)

\* C17: the cache never holds more than _max_cache_size entries, and an
\* insertion that finds it full evicts the oldest entries only: the entry
\* inserted last is still there after the insertion.
C17_OldestEvicted ==
  [][/\ Len(_doc_cache') <= _max_cache_size
     /\ (ex_pc = "nlp" /\ Len(_doc_cache) >= _max_cache_size /\ _doc_cache' # _doc_cache)
          => InCache(_doc_cache', _doc_cache[Len(_doc_cache)].key)]_vars

----------------------------------------------------------------------------
(* HazardClassifier._calculate_severity_score and classify_hazard_statements *)
(* (src/app/hazard_classifier.py)                                           *)

high_severity_codes ==
  { "H200", "H201", "H300", "H310", "H330", "H314", "H318",
    "H340", "H350", "H360", "H370", "H400", "H410" }

medium_severity_codes ==
  { "H220", "H224", "H240", "H301", "H311", "H331", "H315",
    "H319", "H334", "H341", "H351", "H361", "H371", "H401" }

\* lines 118-125: the loop
RECURSIVE SeveritySum(_, _)
SeveritySum(codes_list, score) ==
  IF codes_list = <<>> THEN score
  ELSE SeveritySum(Tail(codes_list),
                   IF Head(codes_list) \in high_severity_codes THEN score + 3
                   ELSE IF Head(codes_list) \in medium_severity_codes THEN score + 2
                   ELSE score + 1)

\* lines 106-127 without the min of line 127
_calculate_severity_score_uncapped(codes_list) == SeveritySum(codes_list, 0)

_calculate_severity_score(codes_list) == Min(SeveritySum(codes_list, 0), 10)

\* the characters of a code
CodeChars(code) ==
  CASE code = "X" -> <<"X">>
    [] code = "H31a" -> <<"H", "3", "1", "a">>
    [] OTHER -> <<"H">> \o
         (CASE code = "H314" -> <<"3", "1", "4">> [] code = "H410" -> <<"4", "1", "0">>
            [] code = "H302" -> <<"3", "0", "2">> [] code = "H315" -> <<"3", "1", "5">>
            [] code = "H205" -> <<"2", "0", "5">> [] code = "H999" -> <<"9", "9", "9">>)

\* s[a:b] of Python, a and b not negative
Slice(s, a, b) == SubSeq(s, a + 1, IF b < Len(s) THEN b ELSE Len(s))

RECURSIVE DecimalVal(_, _)
DecimalVal(ds, acc) ==
  IF ds = <<>> THEN acc ELSE DecimalVal(Tail(ds), 10 * acc + DigitVal(Head(ds)))

\* int(s) of a string: white space around it, a sign, digits with single
\* underscores between them; anything else is a ValueError
PyIntOf(s) ==
  LET ws == {" ", "\n", "\t"}
      a == First({k \in 1..Len(s) : s[k] \notin ws})
      z == IF a = 0 THEN 0 ELSE CHOOSE k \in a..Len(s) :
                                  s[k] \notin ws /\ \A x \in (k + 1)..Len(s) : s[x] \in ws
      signed == a # 0 /\ s[a] \in {"+", "-"}
      body == IF a = 0 THEN <<>> ELSE SubSeq(s, IF signed THEN a + 1 ELSE a, z)
      digits == SelectSeq(body, LAMBDA c : c # "_")
      wellFormed ==
        /\ body # <<>>
        /\ \A k \in 1..Len(body) : body[k] \in Digits \cup {"_"}
        /\ body[1] # "_" /\ body[Len(body)] # "_"
        /\ \A k \in 1..(Len(body) - 1) : ~(body[k] = "_" /\ body[k + 1] = "_")
  IN IF ~wellFormed THEN Raise("ValueError")
     ELSE PyInt(IF signed /\ s[a] = "-" THEN 0 - DecimalVal(digits, 0)
                ELSE DecimalVal(digits, 0))

\* lines 27-32: the bucket of a number, "" when there is none
BucketOf(code_num) ==
  IF 200 <= code_num /\ code_num <= 299 THEN "physical_hazards"
  ELSE IF 300 <= code_num /\ code_num <= 399 THEN "health_hazards"
  ELSE IF 400 <= code_num /\ code_num <= 499 THEN "environmental_hazards"
  ELSE ""

Appended(dict, bucket, code) ==
  IF bucket = "" THEN dict ELSE [dict EXCEPT ![bucket] = Append(@, code)]

\* lines 20-37 without the except of lines 33-35: the ValueError of int()
\* leaves the method
RECURSIVE classify_hazard_statements_without_except(_, _)
classify_hazard_statements_without_except(codes_list, dict) ==
  IF codes_list = <<>> THEN dict
  ELSE LET code == Head(codes_list)
           chars == CodeChars(code)
           code_num == PyIntOf(Slice(chars, 1, 4))
       IN IF chars = <<>> \/ chars[1] # "H"
          THEN classify_hazard_statements_without_except(Tail(codes_list), dict)
          ELSE IF code_num.kind = "raise" THEN code_num
          ELSE classify_hazard_statements_without_except(
                 Tail(codes_list), Appended(dict, BucketOf(code_num.n), code))

\* lines 20-37, dict being the classification so far
RECURSIVE classify_hazard_statements(_, _)
classify_hazard_statements(codes_list, dict) ==
  IF codes_list = <<>> THEN dict
  ELSE LET code == Head(codes_list)
           chars == CodeChars(code)
           code_num == PyIntOf(Slice(chars, 1, 4))
       IN IF chars = <<>> \/ chars[1] # "H"
          THEN classify_hazard_statements(Tail(codes_list), dict)
          ELSE IF code_num.kind = "raise"
          THEN classify_hazard_statements(Tail(codes_list), dict)
          ELSE classify_hazard_statements(
                 Tail(codes_list), Appended(dict, BucketOf(code_num.n), code))

CalculateSeverityScore ==
  /\ haz_pc = "done"
  /\ severity_score' = _calculate_severity_score(h_codes)
  /\ haz_pc' = "scored"
  /\ UNCHANGED <<h_codes, signal_word, classification, notHaz>>

ClassifyHazardStatements ==
  /\ haz_pc = "scored"
  /\ LET result == classify_hazard_statements(h_codes, EmptyClassification) IN
     IF result = Raise("ValueError")
     THEN haz_pc' = "raised" /\ UNCHANGED classification
     ELSE haz_pc' = "classified" /\ classification' = result
  /\ UNCHANGED <<h_codes, signal_word, severity_score, notHaz>>

HazNext ==
  \/ DetermineSignalWord
  \/ CalculateSeverityScore
  \/ ClassifyHazardStatements

\* the number of places of h_codes holding a code of the set
CountIn(codes) == Cardinality({k \in 1..Len(h_codes) : h_codes[k] \in codes})

Payload(code) ==
  LET chars == CodeChars(code) IN
  IF Len(chars) >= 4 /\ chars[1] = "H" /\ \A k \in 2..4 : chars[k] \in Digits
  THEN 100 * DigitVal(chars[2]) + 10 * DigitVal(chars[3]) + DigitVal(chars[4])
  ELSE -1

----------------------------------------------------------------------------
(* ChemicalNER.extract_entities and extract_chemical_info                  *)
(* (src/app/chemical_ner.py): the registry numbers of a text               *)

\* The words of a text: numbers with a right and with a wrong check digit,
\* one glued to a letter, one with too many digits, one cut short.
NerWords ==
  { <<"7", "6", "8", "1", "-", "5", "2", "-", "9">>,
    <<"7", "6", "8", "1", "-", "5", "2", "-", "8">>,
    <<"5", "0", "-", "0", "0", "-", "0">>,
    <<"5", "0", "-", "0", "0", "-", "4">>,
    <<"a", "5", "0", "-", "0", "0", "-", "0">>,
    <<"1", "2", "3", "4", "5", "6", "7", "8", "-", "5", "2", "-", "9">>,
    <<"5", "2", "-", "9">>,
    <<"C", "A", "S">> }

\* what stands between two words, nothing included
NerSeps == { <<" ">>, <<"\n">>, <<"-">>, <<":", " ">>, <<>> }

NerTexts ==
  {<<>>} \cup NerWords
    \cup {w1 \o sep \o w2 : w1 \in NerWords, sep \in NerSeps, w2 \in NerWords}

\* \w of the regular expressions
IsWordChar(c) == c \notin {"-", " ", "\n", ":"}

\* \b(\d{2,7}-\d{2}-\d)\b at position i of text: the position after the
\* match, 0 when there is none
CasNumberAt(text, i) ==
  LET s == SubSeq(text, i, Len(text))
      n == DigitRun(s, 7)
  IN IF /\ i = 1 \/ ~IsWordChar(text[i - 1])
        /\ n >= 2
        /\ Len(s) >= n + 5
        /\ s[n + 1] = "-"
        /\ s[n + 2] \in Digits /\ s[n + 3] \in Digits
        /\ s[n + 4] = "-"
        /\ s[n + 5] \in Digits
        /\ Len(s) = n + 5 \/ ~IsWordChar(s[n + 6])
     THEN i + n + 5 ELSE 0

\* lines 49-55 for the pattern 'cas_number': pattern.finditer(text) from
\* position pos, each match with its start and end
RECURSIVE FindCasNumbers(_, _)
FindCasNumbers(text, pos) ==
  LET i == First({k \in pos..Len(text) : CasNumberAt(text, k) # 0})
  IN IF i = 0 THEN <<>>
     ELSE <<[text |-> SubSeq(text, i, CasNumberAt(text, i) - 1),
             start |-> i - 1, end |-> CasNumberAt(text, i) - 1]>>
            \o FindCasNumbers(text, CasNumberAt(text, i))

\* lines 44-58, the entry 'cas_number' of the dict
extract_entities(text) == FindCasNumbers(text, 1)

\* lines 77-81 without the test of line 79
RECURSIVE valid_cas_unvalidated(_)
valid_cas_unvalidated(found) ==
  IF found = <<>> THEN [raised |-> "", list |-> <<>>]
  ELSE [raised |-> "",
        list |-> <<Head(found).text>> \o valid_cas_unvalidated(Tail(found)).list]

\* lines 77-81: the numbers of the matches that validate_cas_number accepts;
\* an exception of validate_cas_number leaves the loop
RECURSIVE valid_cas(_)
valid_cas(found) ==
  IF found = <<>> THEN [raised |-> "", list |-> <<>>]
  ELSE LET answer == validate_cas_number(Head(found).text)
           rest == valid_cas(Tail(found))
       IN IF answer \notin {"True", "False"} THEN [raised |-> answer, list |-> <<>>]
          ELSE IF rest.raised # "" THEN rest
          ELSE IF answer = "True"
          THEN [raised |-> "", list |-> <<Head(found).text>> \o rest.list]
          ELSE rest

NerInit ==
  /\ ner_text \in NerTexts /\ entities = <<>> /\ cas_numbers = <<>> /\ ner_pc = "call"
  /\ cas = <<>> /\ cas_result = "" /\ cas_pc = "idle"

ExtractEntities ==
  /\ ner_pc = "call"
  /\ entities' = extract_entities(ner_text)
  /\ ner_pc' = "entities"
  /\ UNCHANGED <<cas, cas_result, cas_pc, ner_text, cas_numbers, notCas>>

ExtractChemicalInfo ==
  /\ ner_pc = "entities"
  /\ LET valid == valid_cas(extract_entities(ner_text)) IN
     IF valid.raised # ""
     THEN ner_pc' = "raised" /\ UNCHANGED cas_numbers
     ELSE ner_pc' = "done" /\ cas_numbers' = valid.list
  /\ UNCHANGED <<cas, cas_result, cas_pc, ner_text, entities, notCas>>

NerNext == ExtractEntities \/ ExtractChemicalInfo

\* a registry number stands in text from position i to position j
StandsAt(text, i, j) ==
  /\ HasCasForm(SubSeq(text, i, j))
  /\ i = 1 \/ ~IsWordChar(text[i - 1])
  /\ j = Len(text) \/ ~IsWordChar(text[j + 1])

Standing(text) ==
  {SubSeq(text, i, j) : i \in 1..Len(text), j \in 1..Len(text)} \cap
    {SubSeq(text, p[1], p[2]) :
       p \in {q \in (1..Len(text)) \X (1..Len(text)) : StandsAt(text, q[1], q[2])}}

\* C13: extract_chemical_info does not raise; every number of cas_numbers
\* has the form of a registry number and the right check digit; every
\* number standing in the text, the ones with a wrong check digit included,
\* is in the list extract_entities returned, and the ones with a wrong check
\* digit are not in cas_numbers.
C13_ValidatedAndRaw ==
  /\ ner_pc # "raised"
  /\ ner_pc = "done" =>
       LET raw == {entities[k].text : k \in 1..Len(entities)}
           validated == {cas_numbers[k] : k \in 1..Len(cas_numbers)}
       IN /\ \A c \in validated : HasCasForm(c) /\ CheckDigitOk(c)
          /\ raw = Standing(ner_text)
          /\ validated = {c \in raw : CheckDigitOk(c)}

\* a right number and a wrong one in one text: both in the raw list, the
\* right one alone in cas_numbers
C13_Witness ==
  /\ ner_pc = "done"
  /\ Len(entities) = 2
  /\ entities[1].text = <<"7", "6", "8", "1", "-", "5", "2", "-", "9">>
  /\ entities[2].text = <<"5", "0", "-", "0", "0", "-", "4">>
  /\ cas_numbers = << <<"7", "6", "8", "1", "-", "5", "2", "-", "9">> >>

\* the aliases of a field in the order they are generated: the order of
\* insertion, SetOrder(0, l) = l
GeneratedOrder(field_name) == _generate_field_variants(field_name, 0)

\* C14 as stated, for the aliases the strategies iterate over: none is
\* empty, none stands twice, the field name is the first and the order is
\* the one in which the aliases are generated.
C14_AliasesInGenerationOrder ==
  ex_variants # <<>> =>
    /\ \A k \in 1..Len(ex_variants) : ex_variants[k] # <<>>
    /\ \A j, k \in 1..Len(ex_variants) : ex_variants[j] = ex_variants[k] => j = k
    /\ ex_variants[1] = <<ex_field_name>>
    /\ ex_variants = GeneratedOrder(ex_field_name)

----------------------------------------------------------------------------
(* Arrays of objects (src/app/dynamic_extractor.py, lines 539-849).  An     *)
(* item schema is the sequence of its fields, a field a pair of name and    *)
(* type; a row is a function from field names to values.                    *)

MaxArrLines == 2

EmptyRow == [f \in {} |-> None]
Put(row, f, value) == [x \in DOMAIN row \cup {f} |-> IF x = f THEN value ELSE row[x]]
FieldNames(schema) == [k \in 1..Len(schema) |-> schema[k][1]]
TypeOf(schema, f) == schema[CHOOSE k \in 1..Len(schema) : schema[k][1] = f][2]

_get_default_value(field_type) ==
  IF field_type = "number" THEN PyInt(0)
  ELSE IF field_type = "boolean" THEN PyBool(FALSE)
  ELSE IF field_type \in {"array", "array_of_objects"} THEN [kind |-> "list", toks |-> <<>>, n |-> 0]
  ELSE IF field_type = "object" THEN [kind |-> "dict", toks |-> <<>>, n |-> 0]
  ELSE Str(<<>>)

\* s.find(lit) in characters for a lowercase lit, -1 where s.lower() has none
FindSeq(s, lit) ==
  LET p == First({q \in 1..(Len(s) - Len(lit) + 1) :
                    \A k \in 1..Len(lit) : LowerOf(s[q + k - 1]) = lit[k]})
  IN IF p = 0 THEN 0 - 1 ELSE CharLen(SubSeq(s, 1, p - 1))

\* lines 599-608: the column of the first variant of the field that the line
\* holds, -1 if it holds none
ColumnOf(line, field_variants) ==
  LET k == First({j \in 1..Len(field_variants) :
                    FindSeq(line, LowerSeq(field_variants[j])) >= 0})
  IN IF k = 0 THEN 0 - 1 ELSE FindSeq(line, LowerSeq(field_variants[k]))

\* temp_header_indices of a line
HeaderIndices(line, field_names, seed) ==
  LET col == [k \in 1..Len(field_names) |->
                ColumnOf(PyStrip(line), _generate_field_variants(field_names[k], seed))]
  IN [f \in {field_names[k] : k \in {j \in 1..Len(field_names) : col[j] >= 0}}
        |-> col[CHOOSE k \in 1..Len(field_names) : field_names[k] = f]]

\* lines 594-614: the index of the first line that holds the variants of
\* at least 60% of the fields, 0 if there is none (the lines count from 1)
HeaderLine(lines, field_names, seed) ==
  First({i \in 1..Len(lines) :
           10 * Cardinality(DOMAIN HeaderIndices(lines[i], field_names, seed))
             >= 6 * Len(field_names)})

\* line[a:b] for a line that is cut where its tokens begin: the tokens that
\* begin at the characters a..b-1
CharSlice(line, a, b) ==
  SelectSeq([k \in 1..Len(line) |->
               IF CharLen(SubSeq(line, 1, k - 1)) >= a /\ CharLen(SubSeq(line, 1, k - 1)) < b
               THEN line[k] ELSE ""],
            LAMBDA t : t # "")

\* line.split(sep)
RECURSIVE SplitOn(_, _)
SplitOn(line, sep) ==
  LET p == First({k \in 1..Len(line) : line[k] = sep})
  IN IF p = 0 THEN <<line>>
     ELSE <<SubSeq(line, 1, p - 1)>> \o SplitOn(SubSeq(line, p + 1, Len(line)), sep)

\* lines 729-731: the parts of a line given to the fields in their order
RECURSIVE RowOfParts(_, _, _)
RowOfParts(parts, field_names, i) ==
  IF i > Len(field_names) THEN EmptyRow
  ELSE LET rest == RowOfParts(parts, field_names, i + 1)
       IN IF i <= Len(parts) /\ parts[i] # <<>>
          THEN Put(rest, field_names[i], Str(_clean_extracted_value(parts[i])))
          ELSE rest

\* sorted(header_indices.items(), key=lambda x: x[1]): the fields by column,
\* those of one column in the order of the dict
SortedFields(header_indices, field_names) ==
  LET in == SelectSeq(field_names, LAMBDA f : f \in DOMAIN header_indices)
      rank(j) == Cardinality({k \in 1..Len(in) :
                    \/ header_indices[in[k]] < header_indices[in[j]]
                    \/ header_indices[in[k]] = header_indices[in[j]] /\ k < j})
  IN [r \in 1..Len(in) |-> in[CHOOSE j \in 1..Len(in) : rank(j) = r - 1]]

\* lines 735-741
RECURSIVE RowOfColumns(_, _, _, _)
RowOfColumns(line, header_indices, sorted_fields, i) ==
  IF i > Len(sorted_fields) THEN EmptyRow
  ELSE LET pos == header_indices[sorted_fields[i]]
           next_pos == IF i + 1 <= Len(sorted_fields)
                       THEN header_indices[sorted_fields[i + 1]] ELSE CharLen(line)
           value == PyStrip(CharSlice(line, pos, next_pos))
           rest == RowOfColumns(line, header_indices, sorted_fields, i + 1)
       IN IF value # <<>> THEN Put(rest, sorted_fields[i], Str(_clean_extracted_value(value)))
          ELSE rest

row_separators == <<"\t", "|", ";", ",">>
StripAll(parts) == [k \in 1..Len(parts) |-> PyStrip(parts[k])]

_parse_table_row(line, header_indices, field_names) ==
  LET k == First({j \in 1..Len(row_separators) :
                    /\ \E p \in 1..Len(line) : line[p] = row_separators[j]
                    /\ Len(SplitOn(line, row_separators[j])) >= Len(field_names)})
  IN IF k # 0 THEN RowOfParts(StripAll(SplitOn(line, row_separators[k])), field_names, 1)
     ELSE IF DOMAIN header_indices # {}
     THEN RowOfColumns(line, header_indices, SortedFields(header_indices, field_names), 1)
     ELSE EmptyRow

\* data_line.lower().startswith(tuple(fn.lower() for fn in field_names))
StartsWithField(line, field_names) ==
  \E k \in 1..Len(field_names) : StartsWithLit(Head(line), LowerOf(field_names[k]))

\* lines 704-709
RECURSIVE HorizontalRows(_, _, _, _, _)
HorizontalRows(lines, j, end, header_indices, field_names) ==
  IF j > end THEN <<>>
  ELSE LET data_line == PyStrip(lines[j])
           row_data == _parse_table_row(data_line, header_indices, field_names)
           rest == HorizontalRows(lines, j + 1, end, header_indices, field_names)
       IN IF /\ data_line # <<>>
             /\ ~StartsWithField(data_line, field_names)
             /\ Cardinality(DOMAIN row_data) >= 2
          THEN <<row_data>> \o rest ELSE rest

Take(s, n) == SubSeq(s, 1, Min(n, Len(s)))

\* header_idx counts the lines from 1: the lines after the header up to the
\* 19th
_extract_horizontal_table_data(lines, header_idx, field_names, header_indices) ==
  Take(HorizontalRows(lines, header_idx + 1, Min(header_idx + 19, Len(lines)),
                      header_indices, field_names), 15)

\* the first field of the names that satisfies test, "" for None
FirstField(field_names, test(_)) ==
  LET k == First({j \in 1..Len(field_names) : test(field_names[j])})
  IN IF k = 0 THEN "" ELSE field_names[k]

\* lines 642 and 679
header_words ==
  << <<"component">>, <<"classification">>, <<"range">>, <<"weight">>,
     <<"ec", "-", "no">>, <<"cas", "-", "no">>, <<"reach">>, <<"registration">>,
     <<"number">> >>
skip_words == << <<"classification">>, <<"reach">>, <<"registration">>, <<"number">> >>

HasAny(line, words) == \E k \in 1..Len(words) : ContainsSeq(line, words[k])

\* re.match(r'^\(\d+.*\)$', line)
IsParenthesised(line) ==
  Len(line) >= 3 /\ line[1] = "(" /\ line[2] \in NumToks /\ line[Len(line)] = ")"

\* re.match(r'^\d+[-\d\s%]*$', line)
IsNumbersOnly(line) ==
  /\ line # <<>> /\ line[1] \in NumToks
  /\ \A k \in 2..Len(line) : line[k] \in NumToks \cup Space \cup {"-", "%"}

\* lines 636-645: the index of the first line after the header that is no
\* further header line, among the nine that follow it
DataStart(lines, header_idx) ==
  LET end == Min(Len(lines), header_idx + 9)
      p == First({i \in (header_idx + 1)..end :
                    /\ PyStrip(lines[i]) # <<>>
                    /\ ~HasAny(PyStrip(lines[i]), header_words)
                    /\ ~IsParenthesised(PyStrip(lines[i]))})
  IN IF p = 0 THEN end + 1 ELSE p

\* lines 655-657 and 691-693
FillWithEmpty(row, field_names) ==
  [f \in DOMAIN row \cup {field_names[k] : k \in 1..Len(field_names)} |->
     IF f \in DOMAIN row THEN row[f] ELSE Str(<<>>)]

IsCasField(field) == FieldLowerHas(field, "cas")
IsEcField(field) ==
  FieldLowerHas(field, "ec") /\ (FieldLowerHas(field, "no") \/ FieldLowerHas(field, "number"))
IsNameField(field) ==
  /\ \E pattern \in {"chemical", "component", "substance", "material"} :
       FieldLowerHas(field, pattern)
  /\ ~FieldLowerHas(field, "product")

\* lines 663-687: current_row after a line that is not empty
RowAfterLine(current_row, line, field_names) ==
  LET cas_match == SearchNumTriple(line, 2, 7, 2)
      ec_match == SearchNumTriple(line, 3, 3, 3)
      cas_field == FirstField(field_names, IsCasField)
      ec_field == FirstField(field_names, IsEcField)
      name_field == FirstField(field_names, IsNameField)
  IN IF cas_match # <<>>
     THEN IF cas_field # "" THEN Put(current_row, cas_field, Str(cas_match)) ELSE current_row
     ELSE IF ec_match # <<>>
     THEN IF ec_field # "" THEN Put(current_row, ec_field, Str(ec_match)) ELSE current_row
     ELSE IF /\ ~IsNumbersOnly(line) /\ CharLen(line) > 3 /\ ~HasAny(line, skip_words)
             /\ name_field # ""
             /\ \/ name_field \notin DOMAIN current_row
                \/ CharLen(line) > CharLen(current_row[name_field].toks)
     THEN Put(current_row, name_field, Str(line))
     ELSE current_row

\* lines 648-694: the rows of the lines i..end, current_row being the row
\* under way
RECURSIVE VerticalTableRows(_, _, _, _, _)
VerticalTableRows(lines, i, end, current_row, field_names) ==
  IF i > end
  THEN IF Cardinality(DOMAIN current_row) >= 2
       THEN <<FillWithEmpty(current_row, field_names)>> ELSE <<>>
  ELSE IF PyStrip(lines[i]) = <<>>
  THEN IF Cardinality(DOMAIN current_row) >= 2
       THEN <<FillWithEmpty(current_row, field_names)>>
              \o VerticalTableRows(lines, i + 1, end, EmptyRow, field_names)
       ELSE VerticalTableRows(lines, i + 1, end, current_row, field_names)
  ELSE VerticalTableRows(lines, i + 1, end,
                    RowAfterLine(current_row, PyStrip(lines[i]), field_names), field_names)

_extract_vertical_table_data(lines, header_idx, field_names) ==
  Take(VerticalTableRows(lines, DataStart(lines, header_idx),
                    Min(DataStart(lines, header_idx) + 19, Len(lines)),
                    EmptyRow, field_names), 5)

\* lines 782-801: the sections of the lines from i on, current_section being
\* the section under way
RECURSIVE SectionsFrom(_, _, _, _)
SectionsFrom(lines, i, current_section, field_names) ==
  LET closed == IF Len(current_section) >= 2 THEN <<Join(current_section, "\n")>> ELSE <<>>
      has_field == \E k \in 1..Len(field_names) :
                     ContainsSeq(PyStrip(lines[i]), <<LowerOf(field_names[k])>>)
  IN IF i > Len(lines) THEN closed
     ELSE IF PyStrip(lines[i]) = <<>>
     THEN closed \o SectionsFrom(lines, i + 1, <<>>, field_names)
     ELSE IF has_field \/ current_section # <<>>
     THEN SectionsFrom(lines, i + 1, Append(current_section, lines[i]), field_names)
     ELSE IF Len(current_section) >= 3
     THEN <<Join(current_section, "\n")>> \o SectionsFrom(lines, i + 1, <<>>, field_names)
     ELSE SectionsFrom(lines, i + 1, current_section, field_names)

_identify_data_sections(text, field_names) == SectionsFrom(SplitLines(text), 1, <<>>, field_names)

\* lines 37-56 in a process whose spaCy model did not load (nlp is None,
\* lines 12-16): the value that is true is converted
CascadeValue(value, fuzzy_value, field_type) ==
  IF value # None THEN _convert_to_type(value.toks, field_type)
  ELSE IF fuzzy_value # None THEN _convert_to_type(fuzzy_value.toks, field_type)
  ELSE None

extract_field_value(field_name, text, field_type, seed) ==
  CascadeValue(_extract_with_optimized_patterns(_generate_field_variants(field_name, seed), text),
               _extract_with_fuzzy_matching(_generate_field_variants(field_name, seed), text),
               field_type)

\* value is not None and value != "" and value != 0 (False equals 0)
IsPopulated(value) ==
  /\ value # None /\ value # Str(<<>>)
  /\ ~(value.kind \in {"int", "float", "bool"} /\ value.n = 0)

noise == {"section", "page", "see", "refer"}

\* lines 748-764, in tenths
TypeConfidence(value, field_type) ==
  IF field_type = "number"
  THEN IF value.kind \in {"int", "float", "bool"} /\ value.n > 0 THEN 3 ELSE 0
  ELSE IF field_type = "string"
  THEN (IF CharLen(value.toks) > 2 THEN 2 ELSE 0)
       + (IF \E k \in 1..Len(value.toks) : IsNum(value.toks[k], 4, 10000) THEN 0 ELSE 1)
       + (IF \E k \in 1..Len(value.toks) : LowerOf(value.toks[k]) \in noise THEN 0 ELSE 1)
  ELSE 0

\* lines 767-771
ContextConfidence(field_variants, context) ==
  IF \E k \in 1..Len(field_variants) : ContainsSeq(context, LowerSeq(field_variants[k]))
  THEN 2 ELSE 0

_calculate_value_confidence_from_zero(value, field_type, context, field_name, seed) ==
  Min(10, 0 + TypeConfidence(value, field_type)
            + ContextConfidence(_generate_field_variants(field_name, seed), context))

\* the confidence in tenths
_calculate_value_confidence(value, field_type, context, field_name, seed) ==
  Min(10, 5 + TypeConfidence(value, field_type)
            + ContextConfidence(_generate_field_variants(field_name, seed), context))

\* lines 562-567: the row with a value and its confidence; scored is
\* history, the confidence of every populated value
WithConfidence(rest, field_name, value, confidence) ==
  IF IsPopulated(value) /\ confidence > 3
  THEN [row_data |-> Put(rest.row_data, field_name, value),
        field_confidence |-> Put(rest.field_confidence, field_name, confidence),
        scored |-> Put(rest.scored, field_name, confidence)]
  ELSE IF IsPopulated(value)
  THEN [rest EXCEPT !.scored = Put(rest.scored, field_name, confidence)]
  ELSE rest

\* lines 561-564
WithValue(rest, field, section, seed, value) ==
  WithConfidence(rest, field[1], value,
                 _calculate_value_confidence(value, field[2], section, field[1], seed))

\* lines 556-567: row_data and field_confidence of a section, for the fields
\* from i on
RECURSIVE SectionRow(_, _, _, _)
SectionRow(section, schema, seed, i) ==
  IF i > Len(schema)
  THEN [row_data |-> EmptyRow, field_confidence |-> EmptyRow, scored |-> EmptyRow]
  ELSE WithValue(SectionRow(section, schema, seed, i + 1), schema[i], section, seed,
                 extract_field_value(schema[i][1], section, schema[i][2], seed))

RECURSIVE SumOf(_)
SumOf(f) ==
  IF DOMAIN f = {} THEN 0
  ELSE LET x == CHOOSE y \in DOMAIN f : TRUE
       IN f[x] + SumOf([y \in DOMAIN f \ {x} |-> f[y]])

Max(a, b) == IF a >= b THEN a ELSE b

\* lines 574-578
FillWithDefaults(row_data, schema) ==
  [f \in DOMAIN row_data \cup {schema[k][1] : k \in 1..Len(schema)} |->
     IF f \in DOMAIN row_data THEN row_data[f] ELSE _get_default_value(TypeOf(schema, f))]

\* lines 570-579: the rows a section adds to results; avg_confidence > 0.4
\* without the division
RowsOfSection(row, schema) ==
  IF /\ Cardinality(DOMAIN row.row_data) >= Max(2, Len(schema) \div 3)
     /\ DOMAIN row.field_confidence # {}
     /\ SumOf(row.field_confidence) > 4 * Cardinality(DOMAIN row.field_confidence)
  THEN <<FillWithDefaults(row.row_data, schema)>>
  ELSE <<>>

\* What lines 556-571 compute for a section: the confidence of each
\* populated value, and whether the section became a row
Scored(row, schema) ==
  [confidence |-> row.scored, accepted |-> RowsOfSection(row, schema) # <<>>]

ItemSchemaA == << <<"productName", "string">>, <<"count", "number">>, <<"flag", "boolean">> >>
ItemSchemaB ==
  << <<"chemicalName", "string">>, <<"casNumber", "string">>, <<"weightPercent", "number">> >>

Spaces(n) == [k \in 1..n |-> " "]

\* the header lines and the data lines of the tables, and the lines of the
\* sections; the columns of the lines without separator stand under those
\* of the header
HeaderLinesA ==
  { <<"Product", " ", "Name", " ", "|", " ", "count", " ", "|", " ", "flag">>,
    <<"Product", " ", "Name", " ", "|", " ", "count">> }
DataLinesA ==
  { <<>>,
    <<"Bleach", " ", "|", " ", "5", " ", "|", " ", "yes">>,
    <<"Water", " ", "|", " ", "10", " ", "|">>,
    <<"Bleach", " ", "|", " ", "5">>,
    <<"Bleach">> \o Spaces(9) \o <<"5">> \o Spaces(7) \o <<"yes">> }
SectionLinesA ==
  { <<>>,
    <<"count", ":", " ", "5", " ", "-", " ", "10">>,
    <<"flag", " ", "=", " ", "yes">>,
    <<"Product", " ", "Name", ":", " ", "Bleach">> }
HeaderLinesB ==
  { <<"Chemical", " ", "Name">> \o Spaces(7) \o <<"CAS", "-", "No">> \o Spaces(6)
      \o <<"Weight", " ", "%">> }
DataLinesB ==
  { <<>>,
    <<"Sodium", " ", "hypochlorite">>,
    <<"7681", "-", "52", "-", "9">>,
    <<"5", " ", "-", " ", "10">>,
    <<"Water", " ", "|", " ", "7681", "-", "52", "-", "9", " ", "|">>,
    <<"Component">> }

LinesUpTo(menu, n) == UNION {[1..k -> menu] : k \in 0..n}

ArrTexts(schema) ==
  IF schema = ItemSchemaA
  THEN {Join(<<h>> \o ls, "\n") : h \in HeaderLinesA, ls \in LinesUpTo(DataLinesA, MaxArrLines)}
         \cup {Join(ls, "\n") : ls \in LinesUpTo(SectionLinesA, MaxArrLines)}
  ELSE {Join(<<h>> \o ls, "\n") : h \in HeaderLinesB, ls \in LinesUpTo(DataLinesB, MaxArrLines)}

ArrIdle ==
  /\ arr_schema = <<>> /\ arr_text = <<>> /\ arr_seed = 0 /\ arr_header = 0
  /\ arr_sections = <<>> /\ arr_results = <<>> /\ arr_path = "" /\ arr_pc = "idle"
  /\ arr_scored = <<>>

\* _extract_structured_array(text, schema) is called
ArrInit ==
  /\ arr_schema \in {ItemSchemaA, ItemSchemaB}
  /\ arr_text \in ArrTexts(arr_schema)
  /\ arr_seed \in 0..MaxSeed
  /\ arr_header = 0 /\ arr_sections = <<>> /\ arr_results = <<>> /\ arr_path = ""
  /\ arr_scored = <<>>
  /\ arr_pc = "call"

field_names == FieldNames(arr_schema)
header_indices == HeaderIndices(SplitLines(arr_text)[arr_header], field_names, arr_seed)

\* lines 545 and 587-614
FindHeader ==
  /\ arr_pc = "call"
  /\ arr_header' = HeaderLine(SplitLines(arr_text), field_names, arr_seed)
  /\ arr_pc' = IF arr_header' = 0 THEN "sections" ELSE "vertical"
  /\ UNCHANGED <<arr_schema, arr_text, arr_seed, arr_sections, arr_results, arr_path,
                 arr_scored, notArr>>

\* what _extract_structured_array does with the rows of a table function:
\* rows that are true are returned (lines 620-621 or 625-626, and 546-547)
TableRows(rows, path, miss) ==
  /\ IF rows # <<>>
     THEN arr_results' = rows /\ arr_path' = path /\ arr_pc' = "done"
     ELSE arr_pc' = miss /\ UNCHANGED <<arr_results, arr_path>>
  /\ UNCHANGED <<arr_schema, arr_text, arr_seed, arr_header, arr_sections, arr_scored, notArr>>

\* line 619
ExtractVerticalTableData ==
  /\ arr_pc = "vertical"
  /\ TableRows(_extract_vertical_table_data(SplitLines(arr_text), arr_header, field_names),
               "vertical", "horizontal")

\* line 624
ExtractHorizontalTableData ==
  /\ arr_pc = "horizontal"
  /\ TableRows(_extract_horizontal_table_data(SplitLines(arr_text), arr_header, field_names,
                                              header_indices),
               "horizontal", "sections")

\* line 550
IdentifyDataSections ==
  /\ arr_pc = "sections"
  /\ arr_sections' = _identify_data_sections(arr_text, field_names)
  /\ arr_pc' = "rows"
  /\ UNCHANGED <<arr_schema, arr_text, arr_seed, arr_header, arr_results, arr_path,
                 arr_scored, notArr>>

\* lines 552-579: one turn of the loop over the sections
ExtractSectionRow ==
  /\ arr_pc = "rows" /\ arr_sections # <<>>
  /\ arr_results' = arr_results
       \o RowsOfSection(SectionRow(Head(arr_sections), arr_schema, arr_seed, 1), arr_schema)
  /\ arr_sections' = Tail(arr_sections)
  /\ arr_scored' = Append(arr_scored,
                          Scored(SectionRow(Head(arr_sections), arr_schema, arr_seed, 1),
                                 arr_schema))
  /\ UNCHANGED <<arr_schema, arr_text, arr_seed, arr_header, arr_path, arr_pc, notArr>>

\* line 582
ReturnResults ==
  /\ arr_pc = "rows" /\ arr_sections = <<>>
  /\ arr_results' = Take(arr_results, 20)
  /\ arr_path' = "sections"
  /\ arr_pc' = "done"
  /\ UNCHANGED <<arr_schema, arr_text, arr_seed, arr_header, arr_sections, arr_scored, notArr>>

ArrNext ==
  \/ FindHeader
  \/ ExtractVerticalTableData
  \/ ExtractHorizontalTableData
  \/ IdentifyDataSections
  \/ ExtractSectionRow
  \/ ReturnResults


\* C15: every row returned by _extract_structured_array, whichever function
\* it comes from, has at least two populated fields, has every field name of
\* the item schema as a key, and holds the default of the declared type in
\* the fields that were not found.
C15_RowsComplete ==
  arr_pc = "done" =>
    \A k \in 1..Len(arr_results) :
      /\ DOMAIN arr_results[k] = {arr_schema[j][1] : j \in 1..Len(arr_schema)}
      /\ Cardinality({f \in DOMAIN arr_results[k] : IsPopulated(arr_results[k][f])}) >= 2
      /\ \A f \in DOMAIN arr_results[k] :
           ~IsPopulated(arr_results[k][f]) =>
             arr_results[k][f] = _get_default_value(TypeOf(arr_schema, f))

\* C27: the confidence of every populated value of a section lies between
\* 0.5 and 1.0 (5 and 10 tenths), so neither the floor of 0.3 per field nor
\* the floor of 0.4 on the average rejects anything: a section becomes a row
\* exactly when it has at least max(2, number of fields // 3) populated fields.
C27_ConfidenceNeverRejects ==
  \A k \in 1..Len(arr_scored) :
    /\ \A f \in DOMAIN arr_scored[k].confidence :
         arr_scored[k].confidence[f] >= 5 /\ arr_scored[k].confidence[f] <= 10
    /\ arr_scored[k].accepted <=>
         Cardinality(DOMAIN arr_scored[k].confidence) >= Max(2, Len(arr_schema) \div 3)

\* a section became a row of the list returned, and one of its values had
\* less than full confidence
C27_Witness ==
  /\ arr_pc = "done" /\ arr_results # <<>>
  /\ \E k \in 1..Len(arr_scored) :
       /\ arr_scored[k].accepted
       /\ \E f \in DOMAIN arr_scored[k].confidence : arr_scored[k].confidence[f] < 10

----------------------------------------------------------------------------
(* Batch processing (src/main.py, lines 210-269).                          *)
(* process_batch submits one job per document to a ProcessPoolExecutor of  *)
(* max_workers processes and collects the futures as they complete.  A     *)
(* worker process takes the jobs in the order of submission.  A job ends   *)
(* when its worker returns or raises; when a worker process dies the pool  *)
(* is broken and every future not yet finished gets the exception          *)
(* BrokenProcessPool.  as_completed is called without a timeout, so it     *)
(* yields finished futures only and ends when every future has finished.   *)

MaxDocs == 3
MaxWorkers == 2

\* What processing a document does in its worker:
\*   "result"  process_single_pdf returns the final result
\*   "error"   process_single_pdf returns a dict with 'error' (lines 84-88, 93-97, 151-156)
\*   "raise"   the worker raises: the constructor of line 268 is outside the try
\*   "die"     the worker process is terminated
\*   "slow"    process_single_pdf returns the final result after more than 60 seconds
\*   "hang"    the worker never finishes
Fates == {"result", "error", "raise", "die", "slow", "hang"}

Docs == 1..Len(pdf_paths)

NoOutcome == [kind |-> "", cause |-> 0]

\* The dict a worker returns for the document d.
final_result(d) == [pdf_path |-> d, error |-> ""]

error_result(d) == [pdf_path |-> d, error |-> "Processing failed"]

\* What _process_single_pdf_worker gives for the document d, as the outcome
\* of its future: a value returned or an exception raised, and the document
\* whose processing it comes from.
_process_single_pdf_worker(d) ==
  CASE fate[d] \in {"result", "slow"} -> [kind |-> "returned", value |-> final_result(d), cause |-> d]
    [] fate[d] = "error" -> [kind |-> "returned", value |-> error_result(d), cause |-> d]
    [] OTHER -> [kind |-> "raised", value |-> "Exception", cause |-> d]

BrokenProcessPool(d) == [kind |-> "raised", value |-> "BrokenProcessPool", cause |-> d]

Pending == {d \in Docs : futures[d].state = "pending"}

Running == {d \in Docs : futures[d].state = "running"}

Finished == {d \in Docs : futures[d].state = "finished"}

\* The entry the loop body of lines 227-240 stores for a finished future:
\* future.result(timeout=60) of a finished future returns its value or raises
\* its exception at once.
EntryOf(d, outcome) ==
  IF outcome.kind = "returned"
    THEN outcome.value
    ELSE [pdf_path |-> d, error |-> "Batch processing error"]

\* Lines 245-246 and 252.
StatisticsOf(res, paths) ==
  LET successful == Cardinality({d \in DOMAIN res : res[d].error = ""})
  IN  [total_pdfs |-> Len(paths),
       successful |-> successful,
       failed |-> Cardinality(DOMAIN res) - successful]

default_donut_timeout == 5

\* Lines 59-64: the attributes __init__ sets; available is DONUT_AVAILABLE
PDFBatchProcessor(workers, cache, with_donut, timeout, available) ==
  [max_workers |-> workers, use_cache |-> cache,
   enable_donut |-> with_donut /\ available, donut_timeout |-> timeout]

\* Lines 353-358: what the command line passes for use_cache, enable_donut
\* and donut_timeout: the defaults, --no-cache, --no-donut with
\* --donut-timeout 1
ProcessorArgs ==
  { <<TRUE, TRUE, default_donut_timeout>>, <<FALSE, TRUE, default_donut_timeout>>,
    <<TRUE, FALSE, 1>> }

\* Line 268: the processor a worker makes for its job
WorkerProcessor(available) ==
  PDFBatchProcessor(1, FALSE, TRUE, default_donut_timeout, available)

BatIdle ==
  /\ pdf_paths = <<>> /\ max_workers = 1 /\ fate = <<>> /\ futures = <<>>
  /\ results = <<>> /\ batch_statistics = <<>> /\ batch_pc = "idle"
  /\ processor = <<>> /\ worker_processor = <<>>

BatInit ==
  /\ \E n \in 0..MaxDocs :
       /\ pdf_paths = [d \in 1..n |-> d]
       /\ fate \in [1..n -> Fates]
  /\ max_workers \in 1..MaxWorkers
  /\ \E args \in ProcessorArgs :
       processor = PDFBatchProcessor(max_workers, args[1], args[2], args[3], DONUT_AVAILABLE)
  /\ worker_processor = <<>>
  /\ futures = <<>>
  /\ results = <<>>
  /\ batch_statistics = <<>>
  /\ batch_pc = "call"

\* Lines 214-223: the jobs are submitted in the order of pdf_paths.
Submit ==
  /\ batch_pc = "call"
  /\ futures' = [d \in Docs |-> [state |-> "pending", outcome |-> NoOutcome]]
  /\ results' = <<>>
  /\ batch_pc' = "collect"
  /\ UNCHANGED <<pdf_paths, max_workers, fate, batch_statistics, processor,
                 worker_processor, notBat>>

\* A free worker process takes the first job waiting.
StartJob(d) ==
  /\ batch_pc = "collect"
  /\ d \in Pending
  /\ \A e \in Pending : d <= e
  /\ Cardinality(Running) < max_workers
  /\ futures' = [futures EXCEPT ![d].state = "running"]
  /\ worker_processor' = (d :> WorkerProcessor(DONUT_AVAILABLE)) @@ worker_processor
  /\ UNCHANGED <<pdf_paths, max_workers, fate, results, batch_statistics, batch_pc,
                 processor, notBat>>

\* Lines 264-269: the worker of the document d returns or raises.
FinishJob(d) ==
  /\ batch_pc = "collect"
  /\ d \in Running
  /\ fate[d] \in {"result", "error", "raise", "slow"}
  /\ futures' = [futures EXCEPT ![d] =
                   [state |-> "finished", outcome |-> _process_single_pdf_worker(d)]]
  /\ UNCHANGED <<pdf_paths, max_workers, fate, results, batch_statistics, batch_pc,
                 processor, worker_processor, notBat>>

\* The worker process of the document d dies: the pool is broken, and every
\* future not yet finished, running or waiting, gets BrokenProcessPool.
WorkerDies(d) ==
  /\ batch_pc = "collect"
  /\ d \in Running
  /\ fate[d] = "die"
  /\ futures' = [e \in Docs |->
                   IF e \in Finished
                     THEN futures[e]
                     ELSE [state |-> "finished", outcome |-> BrokenProcessPool(d)]]
  /\ UNCHANGED <<pdf_paths, max_workers, fate, results, batch_statistics, batch_pc,
                 processor, worker_processor, notBat>>

\* Lines 226-240: as_completed yields a finished future not yet yielded.
Collect(d) ==
  /\ batch_pc = "collect"
  /\ d \in Finished
  /\ d \notin DOMAIN results
  /\ results' = [e \in DOMAIN results \cup {d} |->
                   IF e = d THEN EntryOf(d, futures[d].outcome) ELSE results[e]]
  /\ UNCHANGED <<pdf_paths, max_workers, fate, futures, batch_statistics, batch_pc,
                 processor, worker_processor, notBat>>

\* Lines 242-262: as_completed has yielded every future, the executor is
\* shut down and the summary returned.
ReturnSummary ==
  /\ batch_pc = "collect"
  /\ DOMAIN results = Docs
  /\ batch_statistics' = StatisticsOf(results, pdf_paths)
  /\ batch_pc' = "returned"
  /\ UNCHANGED <<pdf_paths, max_workers, fate, futures, results, processor,
                 worker_processor, notBat>>

\* The steps of the thread running process_batch.
Driver == Submit \/ (\E d \in Docs : Collect(d)) \/ ReturnSummary

\* The steps of the worker processes on the job of the document d.
Worker(d) == StartJob(d) \/ FinishJob(d) \/ WorkerDies(d)

BatNext ==
  \/ Submit
  \/ \E d \in Docs : StartJob(d)
  \/ \E d \in Docs : FinishJob(d)
  \/ \E d \in Docs : WorkerDies(d)
  \/ \E d \in Docs : Collect(d)
  \/ ReturnSummary

\* The thread of process_batch and every worker process run when they can.
BatFairness ==
  /\ WF_vars(Driver)
  /\ \A d \in 1..MaxDocs : WF_vars(d \in Docs /\ Worker(d))

\* The documents whose worker takes more than the 60 seconds of line 229 or
\* never finishes.
Stuck == {d \in Docs : fate[d] \in {"slow", "hang"}}

\* C18: when process_batch has returned, batch_results has exactly one entry
\* per input document, an error entry stands only in the slot of the document
\* whose processing failed, every document whose worker returned a result has
\* that result, and successful + failed is the number of input documents.
C18_FailureIsolated ==
  batch_pc = "returned" =>
    /\ DOMAIN results = Docs
    /\ \A d \in Docs :
         /\ results[d].pdf_path = d
         /\ results[d].error # "" => futures[d].outcome.cause = d
         /\ (futures[d].outcome.kind = "returned" /\ futures[d].outcome.value.error = "")
              => results[d] = final_result(d)
    /\ batch_statistics.successful + batch_statistics.failed = Len(pdf_paths)

\* C19: when a worker takes more than the 60 seconds of the per-document
\* timeout or never finishes, process_batch eventually returns, with a
\* failure entry for that document and the entries of its siblings.
C19_StuckWorkerAbandoned ==
  (batch_pc = "call" /\ Stuck # {})
    ~> (/\ batch_pc = "returned"
        /\ DOMAIN results = Docs
        /\ \A d \in Stuck : results[d].error # "")

\* C30: every worker of a batch processes its document under the settings
\* of the processor that started the batch: the Donut enable flag, the Donut
\* timeout and the cache-usage flag of the worker's processor equal those
\* the batch processor was constructed with.
C30_WorkerSettingsEqual ==
  \A d \in DOMAIN worker_processor :
    /\ worker_processor[d].enable_donut = processor.enable_donut
    /\ worker_processor[d].donut_timeout = processor.donut_timeout
    /\ worker_processor[d].use_cache = processor.use_cache

\* The same for one setting at a time
WorkerDonutFlagEqual ==
  \A d \in DOMAIN worker_processor :
    worker_processor[d].enable_donut = processor.enable_donut
WorkerDonutTimeoutEqual ==
  \A d \in DOMAIN worker_processor :
    worker_processor[d].donut_timeout = processor.donut_timeout
WorkerCacheFlagEqual ==
  \A d \in DOMAIN worker_processor :
    worker_processor[d].use_cache = processor.use_cache

----------------------------------------------------------------------------
(* Donut with pdfplumber fallback (src/main.py, lines 158-208, and         *)
(* src/app/donut_processor.py, lines 21-136 and 166-202).                  *)
(* Times are whole units.  What the Donut model does with the page is the  *)
(* record donut: whether the constructor FastDonutProcessor() raises, how  *)
(* process_pdf_page ends, the time each stage takes and the text decoded.  *)
(* process_pdf_page starts its clock after the constructor has loaded the  *)
(* model and reads it for the last time before the decoding.               *)

MaxTimeout == 2
MaxStage == 1

Stage == 0..MaxStage

Donuts ==
  [init : {"ok", "raise"},
   page : {"ok", "no images", "raise"},
   load : Stage, convert : Stage, prepare : Stage, generate : Stage, decode : Stage,
   text : {"", "short", "long"}]

NoDonut ==
  [init |-> "ok", page |-> "ok", load |-> 0, convert |-> 0, prepare |-> 0,
   generate |-> 0, decode |-> 0, text |-> ""]

Failure(error, processing_time) ==
  [success |-> FALSE, error |-> error, processing_time |-> processing_time,
   structured_text |-> ""]

\* FastDonutProcessor.process_pdf_page, lines 50-136.
process_pdf_page(d, timeout) ==
  CASE d.page = "raise" -> Failure("exception", d.convert)
    [] d.page = "no images" -> Failure("No images extracted from PDF", d.convert)
    [] d.convert > timeout -> Failure("Timeout during image conversion", d.convert)
    [] d.convert + d.prepare > timeout ->
         Failure("Timeout before model generation", d.convert + d.prepare)
    [] d.convert + d.prepare + d.generate > timeout ->
         Failure("Timeout during model generation", d.convert + d.prepare + d.generate)
    [] OTHER ->
         [success |-> TRUE, error |-> "",
          processing_time |-> d.convert + d.prepare + d.generate,
          structured_text |-> d.text]

\* extract_pdf_content of src/app/utils.py returns a dict.
fallback_extractor == [kind |-> "dict", text |-> ""]

\* try_donut_extraction, lines 166-202, given what process_pdf_page returned
\* (<<>> when it was not called).
try_donut_extraction(available, d, result, timeout) ==
  IF ~available \/ d.init = "raise"
    THEN fallback_extractor
    ELSE IF result.success /\ result.processing_time < timeout
           THEN [kind |-> "str", text |-> result.structured_text]
           ELSE fallback_extractor

\* The condition of line 170: a str whose stripped length is over 100.
DonutSucceeded(text) == text.kind = "str" /\ text.text = "long"

\* The time from the call of try_donut_extraction to its return with the
\* text of Donut.
DonutTime(d) == d.load + d.convert + d.prepare + d.generate + d.decode

\* No extraction is running; available is what the import of lines 49-54 gave
DonIdleGiven(available) ==
  /\ DONUT_AVAILABLE = available /\ enable_donut = FALSE /\ donut_timeout = 0
  /\ donut = NoDonut /\ donut_result = <<>> /\ donut_text = ""
  /\ fb_result = <<>> /\ don_pc = "idle"

DonIdle == DonIdleGiven(FALSE)

DonInit ==
  /\ DONUT_AVAILABLE \in BOOLEAN
  /\ enable_donut \in BOOLEAN
  /\ donut_timeout \in 0..MaxTimeout
  /\ donut \in Donuts
  /\ donut_result = <<>>
  /\ donut_text = ""
  /\ fb_result = <<>>
  /\ don_pc = "call"

\* Line 162: Donut is tried when it is enabled.
TryDonut ==
  /\ don_pc = "call"
  /\ enable_donut
  /\ don_pc' = "donut"
  /\ UNCHANGED <<DONUT_AVAILABLE, enable_donut, donut_timeout, donut, donut_result,
                 donut_text, fb_result, notDon>>

\* Lines 166-202 of donut_processor.py, the call of line 168 of main.py.
TryDonutExtraction ==
  /\ don_pc = "donut"
  /\ donut_result' =
       IF DONUT_AVAILABLE /\ donut.init = "ok"
         THEN process_pdf_page(donut, donut_timeout)
         ELSE <<>>
  /\ donut_text' =
       try_donut_extraction(DONUT_AVAILABLE, donut, donut_result', donut_timeout)
  /\ don_pc' = "text"
  /\ UNCHANGED <<DONUT_AVAILABLE, enable_donut, donut_timeout, donut, fb_result,
                 notDon>>

\* Lines 170-186.
UseDonut ==
  /\ don_pc = "text"
  /\ DonutSucceeded(donut_text)
  /\ fb_result' = [extracted_data |-> "fields of raw_text",
                   processing_method |-> "donut", donut_used |-> TRUE]
  /\ don_pc' = "done"
  /\ UNCHANGED <<DONUT_AVAILABLE, enable_donut, donut_timeout, donut, donut_result,
                 donut_text, notDon>>

\* Lines 187-208: Donut was not tried, or what it returned is not a text of
\* more than 100 characters.
UsePdfplumber ==
  /\ \/ don_pc = "call" /\ ~enable_donut
     \/ don_pc = "text" /\ ~DonutSucceeded(donut_text)
  /\ fb_result' = [extracted_data |-> "fields of raw_content",
                   processing_method |-> "pdfplumber", donut_used |-> FALSE]
  /\ don_pc' = "done"
  /\ UNCHANGED <<DONUT_AVAILABLE, enable_donut, donut_timeout, donut, donut_result,
                 donut_text, notDon>>

DonNext == TryDonut \/ TryDonutExtraction \/ UseDonut \/ UsePdfplumber

\* Donut gave no text in time: it was not tried or not available, its
\* constructor or its page processing raised, it reported failure, or it took
\* the caller's timeout or more.
DonutFailed ==
  \/ ~enable_donut
  \/ ~DONUT_AVAILABLE
  \/ donut.init = "raise"
  \/ donut.page = "raise"
  \/ donut_result = <<>>
  \/ ~donut_result.success
  \/ DonutTime(donut) >= donut_timeout

\* C20: when _extract_with_fallback has returned and Donut was unavailable,
\* raised, reported failure or did not finish strictly within the timeout,
\* the result is that of the text-based path, with processing_method
\* 'pdfplumber', donut_used false and extracted data; and donut_used is true
\* only if Donut reported success with a processing time below the timeout.
C20_DonutFallback ==
  don_pc = "done" =>
    /\ DonutFailed =>
         /\ fb_result.processing_method = "pdfplumber"
         /\ fb_result.donut_used = FALSE
         /\ fb_result.extracted_data = "fields of raw_content"
    /\ fb_result.donut_used =>
         /\ donut_result # <<>>
         /\ donut_result.success
         /\ donut_result.processing_time < donut_timeout

\* What the code keeps: Donut is used exactly when it was tried, reported
\* success with a reported processing time below the timeout, and decoded a
\* text of more than 100 characters.
DonutUsedOnlyIfReportedInTime ==
  don_pc = "done" =>
    (fb_result.donut_used <=>
       /\ enable_donut /\ DONUT_AVAILABLE /\ donut.init = "ok"
       /\ donut_result.success
       /\ donut_result.processing_time < donut_timeout
       /\ donut.text = "long")

----------------------------------------------------------------------------
(* The on-disk cache (src/app/cache_manager.py, lines 14-170).             *)
(* Time is in whole days and sizes are in whole megabytes.  A file of the  *)
(* cache is a record of the value pickled in it, its modification time and *)
(* its size; cache_metadata.json is no *.pkl file and no method reads it   *)
(* to decide anything, so it is left out.                                  *)

max_cache_size_mb == 100
max_age_days == 30

MaxNow == 47
MaxOps == 3

\* The clock moves by these numbers of days between two calls.
Advances == {15, 16}

PdfPaths == {"a.pdf", "b.pdf", "copy_of_a.pdf"}

\* Path(pdf_path).read_bytes()
ReadBytes(pdf_path) == IF pdf_path = "b.pdf" THEN "bytes B" ELSE "bytes A"

DiskSchemas == {"{'productName': 'string'}", "{'count': 'number'}"}

\* The results cached and the size in megabytes of the file of each.
DiskResults == {"r1", "r2"}

SizeOfDump(result) == IF result = "r1" THEN 40 ELSE 70

\* Lines 22-26: md5 keeps apart the contents and the schemas of these sets.
_get_cache_key(pdf_path, interface_schema) ==
  <<ReadBytes(pdf_path), interface_schema>>

DiskKeys == {_get_cache_key(p, s) : p \in PdfPaths, s \in DiskSchemas}

Miss == "None"

AgeDays(files, key, now) == now - files[key].mtime

Without(files, gone) == [k \in DOMAIN files \ gone |-> files[k]]

TotalSize(files) == SumOf([k \in DOMAIN files |-> files[k].size])

\* get without the check of the age of the file.
get_whatever_the_age(files, key, now) ==
  IF key \in DOMAIN files THEN files[key].value ELSE Miss

\* Lines 93-120, the value returned.
get(files, key, now) ==
  IF key \in DOMAIN files /\ AgeDays(files, key, now) <= max_age_days
    THEN files[key].value
    ELSE Miss

\* Lines 93-120, the files left: a file found too old is unlinked.
FilesAfterGet(files, key, now) ==
  IF key \in DOMAIN files /\ AgeDays(files, key, now) > max_age_days
    THEN Without(files, {key})
    ELSE files

\* Lines 50-62: the files marked for removal.
files_to_remove(files, now) ==
  {k \in DOMAIN files : AgeDays(files, k, now) > max_age_days}

\* Lines 76-89: the loop over cache_files sorted by modification time, from
\* its i-th element on, with total_size as it stands.
RECURSIVE RemoveOldest(_, _, _, _)
RemoveOldest(files, cache_files, i, total_size) ==
  IF i > Len(cache_files) \/ total_size <= max_cache_size_mb
    THEN files
    ELSE RemoveOldest(Without(files, {cache_files[i]}), cache_files, i + 1,
                      total_size - files[cache_files[i]].size)

\* The orders in which sort(key=mtime) can leave the files that glob yields:
\* files of one modification time stay in the order of glob.
SortedByMtime(files) ==
  {o \in [1..Cardinality(DOMAIN files) -> DOMAIN files] :
     /\ \A i, j \in DOMAIN o : i < j => o[i] # o[j]
     /\ \A i, j \in DOMAIN o : i < j => files[o[i]].mtime <= files[o[j]].mtime}

\* Lines 43-91, for one order of the sorted files: total_size is the size of
\* all the files found by the first glob, those marked for removal included.
_cleanup_cache(files, now, cache_files) ==
  IF TotalSize(files) > max_cache_size_mb
    THEN RemoveOldest(Without(files, files_to_remove(files, now)), cache_files, 1,
                      TotalSize(files))
    ELSE Without(files, files_to_remove(files, now))

NoWrite == [value |-> Miss, at |-> 0, kept |-> FALSE, written |-> FALSE]

DiskIdle ==
  /\ disk_files = <<>> /\ disk_now = 0 /\ disk_key = <<>> /\ disk_value = ""
  /\ disk_got = "" /\ disk_before = <<>> /\ disk_written = <<>> /\ disk_calls = 0
  /\ disk_pc = "idle"

DiskInit ==
  /\ disk_files = <<>> /\ disk_now = 0 /\ disk_key = <<>> /\ disk_value = ""
  /\ disk_got = "" /\ disk_before = <<>>
  /\ disk_written = [k \in DiskKeys |-> NoWrite]
  /\ disk_calls = 0
  /\ disk_pc = "ready"

Between == disk_pc \in {"ready", "stored", "got", "cleared"}

\* A call begins.
Called ==
  /\ Between
  /\ disk_calls < MaxOps
  /\ disk_calls' = disk_calls + 1

\* Time passes between two calls.
Advance ==
  /\ Between
  /\ \E d \in Advances :
       /\ disk_now + d <= MaxNow
       /\ disk_now' = disk_now + d
  /\ disk_key' = <<>> /\ disk_got' = ""
  /\ disk_pc' = "ready"
  /\ UNCHANGED <<disk_files, disk_value, disk_before, disk_written, disk_calls, notDisk>>

\* Lines 122-127: set begins with _cleanup_cache.
SetCleanup ==
  /\ Called
  /\ \E p \in PdfPaths, s \in DiskSchemas, r \in DiskResults :
       /\ disk_key' = _get_cache_key(p, s)
       /\ disk_value' = r
  /\ disk_before' = disk_files
  /\ \E cache_files \in SortedByMtime(Without(disk_files, files_to_remove(disk_files, disk_now))) :
       disk_files' = _cleanup_cache(disk_files, disk_now, cache_files)
  /\ disk_written' =
       [k \in DiskKeys |->
          IF k \in DOMAIN disk_files /\ k \notin DOMAIN disk_files'
               /\ k \notin files_to_remove(disk_files, disk_now)
            THEN [disk_written[k] EXCEPT !.kept = FALSE]
            ELSE disk_written[k]]
  /\ disk_got' = ""
  /\ disk_pc' = "dump"
  /\ UNCHANGED <<disk_now, notDisk>>

\* Lines 127-143: the result is dumped into the file of the key.
SetDump ==
  /\ disk_pc = "dump"
  /\ disk_files' =
       [k \in DOMAIN disk_files \cup {disk_key} |->
          IF k = disk_key
            THEN [value |-> disk_value, mtime |-> disk_now, size |-> SizeOfDump(disk_value)]
            ELSE disk_files[k]]
  /\ disk_written' =
       [disk_written EXCEPT ![disk_key] =
          [value |-> disk_value, at |-> disk_now, kept |-> TRUE, written |-> TRUE]]
  /\ disk_value' = "" /\ disk_before' = <<>>
  /\ disk_pc' = "stored"
  /\ UNCHANGED <<disk_now, disk_key, disk_got, disk_calls, notDisk>>

\* Lines 93-120.
Get ==
  /\ Called
  /\ \E p \in PdfPaths, s \in DiskSchemas :
       /\ disk_key' = _get_cache_key(p, s)
       /\ disk_got' = get(disk_files, disk_key', disk_now)
       /\ disk_files' = FilesAfterGet(disk_files, disk_key', disk_now)
  /\ disk_pc' = "got"
  /\ UNCHANGED <<disk_now, disk_value, disk_before, disk_written, notDisk>>

\* Lines 161-170.
clear_cache ==
  /\ Called
  /\ disk_files # <<>>
  /\ disk_files' = <<>>
  /\ disk_written' = [k \in DiskKeys |-> [disk_written[k] EXCEPT !.kept = FALSE]]
  /\ disk_key' = <<>> /\ disk_got' = ""
  /\ disk_pc' = "cleared"
  /\ UNCHANGED <<disk_now, disk_value, disk_before, notDisk>>

DiskNext == Advance \/ SetCleanup \/ SetDump \/ Get \/ clear_cache

Fresh == DOMAIN disk_before \ files_to_remove(disk_before, disk_now)

Deleted == DOMAIN disk_before \ DOMAIN disk_files

\* C28: when _cleanup_cache has run, every file older than the maximum age
\* is deleted; a file not too old is deleted only when the files not too
\* old together exceed the size limit, no file kept is older than one
\* deleted, and the deleting stopped as soon as the size was within the
\* limit: the files kept and the newest one deleted together exceed it.
C28_CleanupDeletesOnlyWhatItMust ==
  disk_pc = "dump" =>
    /\ files_to_remove(disk_before, disk_now) \subseteq Deleted
    /\ Deleted \cap Fresh # {} =>
         /\ TotalSize(Without(disk_before, DOMAIN disk_before \ Fresh)) > max_cache_size_mb
         /\ \A d \in Deleted \cap Fresh : \A k \in Fresh \ Deleted :
              disk_before[d].mtime <= disk_before[k].mtime
         /\ \E d \in Deleted \cap Fresh :
              TotalSize(disk_files) + disk_before[d].size > max_cache_size_mb

----------------------------------------------------------------------------
(* The end-to-end scenario of test_original_interface                      *)
(* (src/tests/test_pdf_scrapper.py, lines 75-119): the three lines of the  *)
(* scenario in a text, in any order, with other lines between them.        *)

\* Lines 82-94 of the test without hazardStatements: leaf productName, object
\* hazard{signalWord}, array of objects ingredients.
SchemaScenario ==
  ObjOf(("productName" :> Named("productName"))
          @@ ("hazard" :> ObjOf("signalWord" :> Named("signalWord")))
          @@ ("ingredients" :> ListOf(<<IngredientItem>>)))

ProductLine == <<"Product", " ", "Name", " ", "XXXXX", " ", "Regular", "-", "Bleach">>

SignalLine == <<"Signal", " ", "word", " ", "Danger">>

\* What may stand after each of the three lines: nothing, or one of these lines.
FillerLines ==
  { <<>>, <<"#">>, <<"Causes", " ", "severe", " ", "burns">>, <<"5", "%">> }

Fillers == {<<>>} \cup {<<l>> : l \in FillerLines}

ScenarioOrders ==
  {o \in [1..3 -> {ProductLine, SignalLine, RowLine}] :
     \A i, j \in 1..3 : i # j => o[i] # o[j]}

ScenarioTexts ==
  {Join(<<o[1]>> \o f[1] \o <<o[2]>> \o f[2] \o <<o[3]>> \o f[3], "\n") :
     o \in ScenarioOrders, f \in [1..3 -> Fillers]}

ScenarioInit ==
  /\ map_schema = SchemaScenario
  /\ map_text \in ScenarioTexts
  /\ map_result = <<>>
  /\ map_pc = "call"
  /\ map_exc = ""

\* Lines 110-118 of the test.
ScenarioResult ==
  ObjOf(("productName" :> Leaf(Str(<<"XXXXX", " ", "Regular", "-", "Bleach">>)))
          @@ ("hazard" :> ObjOf("signalWord" :> Leaf(Str(<<"Danger">>))))
          @@ ("ingredients" :>
                ListOf(<<ObjOf(("chemicalName" :> Leaf(Str(<<"Sodium", " ", "hypochlorite">>)))
                                 @@ ("casNumber" :> Leaf(Str(<<"7681", "-", "52", "-", "9">>)))
                                 @@ ("weightPercent" :> Leaf(Str(<<"5", " ", "-", " ", "10">>))))>>)))

\* C22: for a text with the product name line, the signal word line and the
\* table row, and the schema of the scenario, the result is productName
\* "XXXXX Regular-Bleach", hazard.signalWord "Danger" and the single ingredient
\* row (Sodium hypochlorite, 7681-52-9, 5 - 10).
C22_EndToEndScenario ==
  map_pc # "call" => (map_pc = "done" /\ map_result = ScenarioResult)

\* The part of the scenario the code keeps: the product name and the signal word.
ScenarioLeaves ==
  map_pc # "call" =>
    /\ map_pc = "done"
    /\ Subtree(map_result, <<"productName">>) = Subtree(ScenarioResult, <<"productName">>)
    /\ Subtree(map_result, <<"hazard">>) = Subtree(ScenarioResult, <<"hazard">>)

----------------------------------------------------------------------------
(* extract_ingredient_data on texts with header and guideline lines        *)
(* (src/app/extractors.py, src/tests/test_pdf_scrapper.py)                 *)

MaxNoiseLines == 3

\* The lines of the texts: the noise of the two tests, the table row on one
\* line, and the row as a table of one cell per line
NoiseLines ==
  { <<"PERSONAL", " ", "PROTECTION">>,
    <<"ACGIH", " ", "TLV">>,
    <<"Chemical", " ", "Name", " ", "CAS", "-", "No">>,
    RowLine,
    <<"Sodium", " ", "hypochlorite">>,
    <<"7681", "-", "52", "-", "9">>,
    <<"5", " ", "-", " ", "10">> }

NoiseTexts ==
  UNION {{Join(ls, "\n") : ls \in [1..n -> NoiseLines]} : n \in 1..MaxNoiseLines}

IngIdle == ing_text = <<>> /\ ing_result = <<>> /\ ing_path = "" /\ ing_pc = "idle"

IngInit ==
  /\ ing_text \in NoiseTexts
  /\ ing_result = <<>>
  /\ ing_path = ""
  /\ ing_pc = "call"

\* ingredients = extract_ingredient_data(text)
ExtractIngredientData ==
  /\ ing_pc = "call"
  /\ ing_result' = extract_ingredient_data(ing_text)
  /\ ing_path' = IF _extract_structured_ingredients(TableSection(ing_text)) # <<>>
                 THEN "structured" ELSE "pattern"
  /\ ing_pc' = "done"
  /\ UNCHANGED ing_text
  /\ UNCHANGED notIng

IngNext == ExtractIngredientData

\* phrase in chemical
Contains(chemical, phrase) ==
  \E k \in 1..(Len(chemical) - Len(phrase) + 1) :
    SubSeq(chemical, k, k + Len(phrase) - 1) = phrase

\* The table-header and exposure-guideline phrases of the two tests
NoisePhrases ==
  { <<"PERSONAL", " ", "PROTECTION">>, <<"ACGIH">>, <<"Chemical", " ", "Name">>,
    <<"CAS", "-", "No">> }

\* C24: no ingredient extract_ingredient_data returns has a chemical name
\* that contains table-header or exposure-guideline noise (PERSONAL
\* PROTECTION, ACGIH, Chemical Name, CAS-No), whether the structured table
\* path or the pattern fallback produced it.
C24_NoNoiseInIngredients ==
  ing_pc = "done" =>
    \A k \in 1..Len(ing_result) : \A phrase \in NoisePhrases :
      ~Contains(ing_result[k]["component"].toks, phrase)

\* The same for the ingredients of one path only
NoNoiseFromStructured == ing_path = "structured" => C24_NoNoiseInIngredients
NoNoiseFromPattern == ing_path = "pattern" => C24_NoNoiseInIngredients

----------------------------------------------------------------------------
(* PDFBatchProcessor.process_single_pdf (src/main.py, lines 77-156) in a   *)
(* processor whose extraction reaches the pdfplumber fallback of lines      *)
(* 190-208.  The import of lines 38-47 fails: app.dynamic_extractor defines *)
(* none of extract_fields_from_interface, extract_all_chemical_entities and *)
(* get_extraction_stats, so ENHANCED_FEATURES is False, self.cache is None  *)
(* and the three names are unbound in main.                                 *)

ENHANCED_FEATURES == FALSE

\* content['text'] of extract_pdf_content: no text, or the product name line
PspTexts == { <<>>, ProductLine }

NoResult == [error |-> "", extracted_data |-> <<>>]

\* the dicts of the early returns and of the except clause (lines 84-87,
\* 93-96 and 151-156)
ErrorResult(message) == [error |-> message, extracted_data |-> <<>>]

\* The text passed to the basic mapper is the dict content, not its text: the
\* first extractor the mapper calls hands it to re.search, which raises
\* TypeError.  The mapper calls one for a string of the schema that names a
\* product name, a signal word or a hazard statement.
MapperCallsExtractor(schema) ==
  \E p \in DOMAIN schema :
    /\ schema[p].kind = "str"
    /\ NameContainsAny(schema[p].toks, {"productname", "signalword", "hazardstatement"})

PspIdle ==
  /\ psp_input = <<>> /\ psp_content = <<>> /\ psp_raw = <<>> /\ psp_called = {}
  /\ psp_result = NoResult /\ psp_pc = "idle"

PspInit ==
  /\ psp_input \in [processable : BOOLEAN, loadable : BOOLEAN]
  /\ psp_content = <<>>
  /\ psp_raw = <<>>
  /\ psp_called = {}
  /\ psp_result = NoResult
  /\ psp_pc = "call"

\* lines 83-87
NotProcessable ==
  /\ psp_pc = "call"
  /\ ~psp_input.processable
  /\ psp_result' = ErrorResult("PDF not processable")
  /\ psp_pc' = "returned"
  /\ UNCHANGED <<psp_input, psp_content, psp_raw, psp_called>>
  /\ UNCHANGED notPsp

\* lines 90-96
InterfaceNotLoaded ==
  /\ psp_pc = "call"
  /\ psp_input.processable /\ ~psp_input.loadable
  /\ psp_result' = ErrorResult("Could not load interface")
  /\ psp_pc' = "returned"
  /\ UNCHANGED <<psp_input, psp_content, psp_raw, psp_called>>
  /\ UNCHANGED notPsp

\* line 98: parse_ts_interface(ts_code) is called
ParseInterface ==
  /\ psp_pc = "call"
  /\ psp_input.processable /\ psp_input.loadable
  /\ root' = Leaf(Dict) /\ current' = <<>> /\ schema_stack' = <<>> /\ key_stack' = <<>>
  /\ parse_pc' = "loop" /\ parse_exc' = "" /\ nlines' = 0 /\ closedBy' = <<>>
  /\ braces' = <<>>
  /\ psp_pc' = "parse"
  /\ UNCHANGED <<psp_input, psp_content, psp_raw, psp_called, psp_result>>
  /\ UNCHANGED <<hazVars, casVars, mapVars, exVars, arrVars, ingVars, batVars, donVars, diskVars>>

\* lines 151-156: the exception of the parser is caught
ParserRaised ==
  /\ psp_pc = "parse" /\ parse_pc = "raised"
  /\ psp_result' = ErrorResult("Processing failed")
  /\ psp_pc' = "returned"
  /\ UNCHANGED <<psp_input, psp_content, psp_raw, psp_called>>
  /\ UNCHANGED notPsp

\* lines 100-110 and 190-208: self.cache is None; the content is extracted
\* and the fields are mapped
ExtractWithFallback ==
  /\ psp_pc = "parse" /\ parse_pc = "returned"
  /\ \E text \in PspTexts :
       /\ psp_content' = [text |-> text]
       /\ psp_called' = psp_called \cup
            {IF ENHANCED_FEATURES THEN "extract_fields_from_interface"
             ELSE "map_schema_to_data"}
       /\ IF ENHANCED_FEATURES \/ MapperCallsExtractor(root)
          THEN \* NameError, or the TypeError of the extractor: lines 151-156
               /\ psp_result' = ErrorResult("Processing failed")
               /\ psp_pc' = "returned"
               /\ UNCHANGED psp_raw
          ELSE /\ psp_raw' = [extracted_data |-> map_schema_to_data(root, <<>>),
                              raw_content |-> [text |-> text]]
               /\ psp_pc' = "extracted"
               /\ UNCHANGED psp_result
  /\ UNCHANGED psp_input
  /\ UNCHANGED notPsp

\* line 113: ENHANCED_FEATURES and result.get('raw_text') or
\* result.get('raw_content', {}).get('text'); the result of the fallback has
\* no raw_text
AnalysisWanted ==
  \/ ENHANCED_FEATURES /\ "raw_text" \in DOMAIN psp_raw
  \/ psp_raw.raw_content.text # <<>>

\* lines 113-149
EnhanceAndReturn ==
  /\ psp_pc = "extracted"
  /\ IF AnalysisWanted
     THEN \* lines 114-117: text_content is true, extract_all_chemical_entities
          \* is called; the name is unbound, NameError, lines 151-156
          /\ psp_called' = psp_called \cup {"extract_all_chemical_entities"}
          /\ psp_result' = ErrorResult("Processing failed")
     ELSE /\ psp_result' = [error |-> "", extracted_data |-> psp_raw.extracted_data]
          /\ UNCHANGED psp_called
  /\ psp_pc' = "returned"
  /\ UNCHANGED <<psp_input, psp_content, psp_raw>>
  /\ UNCHANGED notPsp

PspNext ==
  \/ NotProcessable
  \/ InterfaceNotLoaded
  \/ ParseInterface
  \/ ParseNext
  \/ ParserRaised
  \/ ExtractWithFallback
  \/ EnhanceAndReturn

\* C29: with ENHANCED_FEATURES false, process_single_pdf never invokes the
\* enhanced chemical analysis, and for a processable PDF with non-empty
\* extracted text and a loadable interface it returns a result with the
\* extracted_data of the basic mapper and no error.
C29_BasicPathSucceeds ==
  ~ENHANCED_FEATURES =>
    /\ "extract_all_chemical_entities" \notin psp_called
    /\ (psp_pc = "returned" /\ psp_content # <<>> /\ psp_content.text # <<>>) =>
         /\ psp_result.error = ""
         /\ psp_result.extracted_data # <<>>

\* The two parts of C29 one at a time
AnalysisNeverInvoked == "extract_all_chemical_entities" \notin psp_called
MapperNeverRaises ==
  (psp_pc = "returned" /\ psp_content # <<>> /\ "extract_all_chemical_entities" \notin psp_called)
    => psp_result.error = ""

----------------------------------------------------------------------------
(* Specifications: one per component, the other components idle.           *)

MainIdle == BatIdle /\ DonIdle /\ DiskIdle /\ PspIdle

InitParse == ParseInit /\ HazIdle /\ CasIdle /\ MapIdle /\ ExIdle /\ ArrIdle /\ IngIdle /\ MainIdle
SpecParse == InitParse /\ [][ParseNext]_vars

InitHazard == HazInit /\ ParseIdle /\ CasIdle /\ MapIdle /\ ExIdle /\ ArrIdle /\ IngIdle /\ MainIdle
SpecHazard == InitHazard /\ [][HazNext]_vars

InitCas == CasInit /\ ParseIdle /\ HazIdle /\ MapIdle /\ ExIdle /\ ArrIdle /\ IngIdle /\ MainIdle
SpecCas == InitCas /\ [][CasNext]_vars

InitNer == NerInit /\ ParseIdle /\ HazIdle /\ MapIdle /\ ExIdle /\ ArrIdle /\ IngIdle /\ MainIdle
SpecNer == InitNer /\ [][NerNext]_vars

InitMap == MapInit /\ ParseIdle /\ HazIdle /\ CasIdle /\ ExIdle /\ ArrIdle /\ IngIdle /\ MainIdle
SpecMap == InitMap /\ [][MapNext]_vars

InitScenario ==
  ScenarioInit /\ ParseIdle /\ HazIdle /\ CasIdle /\ ExIdle /\ ArrIdle /\ IngIdle /\ MainIdle
SpecScenario == InitScenario /\ [][MapNext]_vars

InitExtract ==
  /\ ExInit /\ ParseIdle /\ HazIdle /\ CasIdle /\ ArrIdle /\ IngIdle /\ MainIdle
  /\ map_schema = SchemaMalformed /\ map_text = ex_text /\ map_result = <<>>
  /\ map_pc = "call" /\ map_exc = ""
SpecExtract == InitExtract /\ [][ExNext]_vars

InitCache == InitExtract
SpecCache == InitCache /\ [][CacheNext]_vars

InitBatch ==
  /\ (\E available \in BOOLEAN : DonIdleGiven(available)) /\ DiskIdle /\ PspIdle
  /\ BatInit /\ ParseIdle /\ HazIdle /\ CasIdle /\ MapIdle /\ ExIdle /\ ArrIdle /\ IngIdle
SpecBatch == InitBatch /\ [][BatNext]_vars

InitBatchFair == InitBatch
SpecBatchFair == InitBatchFair /\ [][BatNext]_vars /\ BatFairness

InitDonut ==
  /\ DonInit /\ ParseIdle /\ HazIdle /\ CasIdle /\ MapIdle /\ ExIdle /\ ArrIdle /\ IngIdle
  /\ BatIdle /\ DiskIdle /\ PspIdle
SpecDonut == InitDonut /\ [][DonNext]_vars

InitDisk ==
  /\ DiskInit /\ ParseIdle /\ HazIdle /\ CasIdle /\ MapIdle /\ ExIdle /\ ArrIdle /\ IngIdle
  /\ BatIdle /\ DonIdle /\ PspIdle
SpecDisk == InitDisk /\ [][DiskNext]_vars

InitArray == ArrInit /\ IngIdle /\ ParseIdle /\ HazIdle /\ CasIdle /\ MapIdle /\ ExIdle /\ MainIdle
SpecArray == InitArray /\ [][ArrNext]_vars

InitIngredients ==
  IngInit /\ ParseIdle /\ HazIdle /\ CasIdle /\ MapIdle /\ ExIdle /\ ArrIdle /\ MainIdle
SpecIngredients == InitIngredients /\ [][IngNext]_vars

InitSingle ==
  /\ PspInit /\ ParseIdle /\ HazIdle /\ CasIdle /\ MapIdle /\ ExIdle /\ ArrIdle /\ IngIdle
  /\ BatIdle /\ DonIdle /\ DiskIdle
SpecSingle == InitSingle /\ [][PspNext]_vars

====
